---- MODULE Spec2Model ----
(***************************************************************************)
(* A model of the simulation-and-learning pipeline of the repository:      *)
(*   DinoPhysics   src/unnamed/part_009  (physics/dino-physics.ts)         *)
(*   DinoEnv       src/unnamed/part_007  (physics/env.ts)                  *)
(*   ReplayBuffer  src/unnamed/part_006  (model/dqn.ts)                    *)
(*   rl.worker     src/workers/rl.worker.ts, lines 137-343                 *)
(*                                                                         *)
(* Numbers.  The program computes in IEEE doubles; the model computes the  *)
(* same expressions in exact rational arithmetic, every quantity stored as *)
(* an integer count of a fixed unit:                                       *)
(*   frames, spawnCooldown, t      in 1/2 frame                            *)
(*   velY                          in 1/20 px/frame                        *)
(*   dinoY                         in 1/40 px                              *)
(*   speed                         in 1/150 px/frame                       *)
(*   obstacle x                    in 1/300 px                             *)
(*   scoreAcc                      in 1/1800                               *)
(* With these units every product  quantity * frames  of the source is the *)
(* integer product  stored quantity * stored frames.                       *)
(***************************************************************************)
EXTENDS Integers, Sequences, FiniteSets, TLC

VARIABLES
    physics,    \* the DinoPhysics instance: its mutable fields
    result,     \* what the last DinoPhysics.step returned beyond the fields
    calls,      \* number of step calls since the last reset (bounded)
    env,        \* the DinoEnv instance: lastScore, terminated, frameSkip
    out,        \* what the last DinoEnv.step / reset returned
    replay,     \* the ReplayBuffer instance: buf, idx, capacity
    added,      \* history: every transition handed to ReplayBuffer.add
    sampled,    \* what the last ReplayBuffer.sample call returned
    worker,     \* rl.worker.ts: module state, the run's locals, the channels
    twin,       \* a second DinoPhysics instance, run beside the first
    agent,      \* a DQN instance: its networks, its buffer, the stored blobs
    parked      \* a trainLoop suspended in save() while a later one runs

vars == <<physics, result, calls, env, out, replay, added, sampled, worker,
         twin, agent, parked>>

\* Op(v), with v evaluated once
Let(v, Op(_)) == CHOOSE x \in { Op(q) : q \in { v } } : TRUE

Min(a, b) == IF a < b THEN a ELSE b
Max(a, b) == IF a > b THEN a ELSE b

-----------------------------------------------------------------------------
(* DinoPhysics: world constants                                            *)

worldWidth == 800
groundY == 160
dinoX == 80
gravityTenths == 9
jumpVelocity == -14
baseSpeed == 6
Infinity == 1000000000

\* unit conversions (see the header)
Frames(n) == 2 * n
VelU(n) == 20 * n
YU(n) == 40 * n
SpeedU(n) == 150 * n
XU(n) == 300 * n
ScoreU(n) == 1800 * n

letterSequenceLength == 7

\* field initialisers of a freshly constructed instance
DinoPhysics_new(celebratoryRun) ==
    [ celebratoryRun |-> celebratoryRun,
      velY |-> 0,
      dinoY |-> YU(groundY),
      speed |-> SpeedU(baseSpeed),
      obstacles |-> << >>,
      spawnCooldown |-> 0,
      scoreInt |-> 0,
      scoreAcc |-> 0,
      obstaclesCleared |-> 0,
      letterQueueIndex |-> 0,
      letterProgress |-> 0,
      letterCelebrated |-> FALSE,
      t |-> 0,
      spawned |-> 0 ]      \* history: obstacles pushed since reset (gives ids)

\* a reset that leaves the fractional score accumulator as it was
DinoPhysics_reset_keepsAcc(p) ==
    [ p EXCEPT !.velY = 0, !.dinoY = YU(groundY), !.speed = SpeedU(baseSpeed),
               !.obstacles = << >>, !.spawnCooldown = Frames(30),
               !.scoreInt = 0, !.t = 0, !.obstaclesCleared = 0,
               !.letterQueueIndex = 0, !.letterProgress = 0,
               !.letterCelebrated = FALSE, !.spawned = 0 ]

\* a reset that leaves the spawn cooldown as it was
DinoPhysics_reset_keepsCooldown(p) ==
    [ p EXCEPT !.velY = 0, !.dinoY = YU(groundY), !.speed = SpeedU(baseSpeed),
               !.obstacles = << >>, !.scoreInt = 0, !.scoreAcc = 0, !.t = 0,
               !.obstaclesCleared = 0, !.letterQueueIndex = 0,
               !.letterProgress = 0, !.letterCelebrated = FALSE,
               !.spawned = 0 ]

DinoPhysics_reset(p) ==
    [ p EXCEPT !.velY = 0,
               !.dinoY = YU(groundY),
               !.speed = SpeedU(baseSpeed),
               !.obstacles = << >>,
               !.spawnCooldown = Frames(30),
               !.scoreInt = 0,
               !.scoreAcc = 0,
               !.t = 0,
               !.obstaclesCleared = 0,
               !.letterQueueIndex = 0,
               !.letterProgress = 0,
               !.letterCelebrated = FALSE,
               !.spawned = 0 ]

\* a speed that keeps growing with the score
StepSpeed_uncapped(p) == SpeedU(baseSpeed) + p.scoreInt

\* this._speed = this.baseSpeed + Math.min(8, this.scoreInt / 150)
StepSpeed(p) == SpeedU(baseSpeed) + Min(SpeedU(8), p.scoreInt)

\* a StepVertical that forgets to zero the velocity on the ground
StepVertical_keepsVelocity(p, jump, f) ==
    LET v0 == IF jump /\ p.dinoY >= YU(groundY) THEN VelU(jumpVelocity) ELSE p.velY
        v1 == v0 + gravityTenths * f
    IN  [ p EXCEPT !.dinoY = Min(YU(groundY), p.dinoY + v1 * f), !.velY = v1 ]

\* a jump test that launches from the air too
JumpVelocity_always(p, jump) == IF jump THEN VelU(jumpVelocity) ELSE p.velY

\* the jump test and the vertical integration, lines 110-118
JumpVelocity(p, jump) ==
    IF jump /\ p.dinoY >= YU(groundY) THEN VelU(jumpVelocity) ELSE p.velY

\* a vertical integration without gravity
StepVertical_weightless(p, jump, f) ==
    LET v1 == JumpVelocity(p, jump)
        y1 == Min(YU(groundY), p.dinoY + v1 * f)
    IN  [ p EXCEPT !.dinoY = y1,
                   !.velY = IF y1 = YU(groundY) THEN 0 ELSE v1 ]

\* velY += gravity * f; dinoY = min(groundY, dinoY + velY * f); on the
\* ground velY = 0
StepVertical(p, jump, f) ==
    LET v1 == JumpVelocity(p, jump) + gravityTenths * f
        y1 == Min(YU(groundY), p.dinoY + v1 * f)
    IN  [ p EXCEPT !.dinoY = y1,
                   !.velY = IF y1 = YU(groundY) THEN 0 ELSE v1 ]

\* Infinity - f = Infinity
CooldownMinus(c, f) == IF c = Infinity THEN Infinity ELSE c - f

\* spawn, lines 120-149; d holds the three Math.random() draws
StepSpawn(p, f, d) ==
    LET cd == CooldownMinus(p.spawnCooldown, f)
        q  == [ p EXCEPT !.spawnCooldown = cd ]
    IN  IF cd > 0 THEN q
        ELSE IF p.celebratoryRun /\ p.letterQueueIndex < letterSequenceLength THEN
            [ q EXCEPT !.obstacles = Append(@,
                           [ id |-> p.spawned, x |-> XU(worldWidth + 40),
                             width |-> 46, height |-> 70, passed |-> FALSE,
                             kind |-> "letter",
                             sequenceIndex |-> p.letterQueueIndex ]),
                       !.letterQueueIndex = @ + 1,
                       !.spawnCooldown = Frames(80),
                       !.spawned = @ + 1 ]
        ELSE IF ~p.celebratoryRun THEN
            [ q EXCEPT !.obstacles = Append(@,
                           [ id |-> p.spawned, x |-> XU(worldWidth + 20),
                             width |-> d.width, height |-> d.height,
                             passed |-> FALSE, kind |-> "cactus",
                             sequenceIndex |-> -1 ]),
                       !.spawnCooldown = d.cooldown,
                       !.spawned = @ + 1 ]
        ELSE q

\* ob.x + ob.width < this.dinoX, after the move
PassedNow(ob) == ob.x + XU(ob.width) < XU(dinoX)

\* a NewlyPassed that drops the !ob.passed guard
NewlyPassed_unguarded(old, ob) == PassedNow(ob)

\* if (!ob.passed && ob.x + ob.width < this.dinoX), ob already moved
NewlyPassed(old, ob) == ~old.passed /\ PassedNow(ob)

\* a move loop that leaves every obstacle where it is
StepMove_still(p, f) == p

\* the move loop, lines 152-164
StepMove(p, f) ==
    LET dx == p.speed * f
        moved == [ i \in 1..Len(p.obstacles) |->
                     LET ob == [ p.obstacles[i] EXCEPT !.x = @ - dx ]
                     IN  [ ob EXCEPT !.passed =
                                         @ \/ NewlyPassed(p.obstacles[i], ob) ] ]
        newly == { i \in 1..Len(p.obstacles) :
                     NewlyPassed(p.obstacles[i], moved[i]) }
        letters == { i \in newly : p.celebratoryRun /\ moved[i].kind = "letter" }
    IN  [ p EXCEPT !.obstacles = moved,
                   !.obstaclesCleared = @ + Cardinality(newly),
                   !.letterProgress =
                       Min(letterSequenceLength, @ + Cardinality(letters)) ]

\* the test of the cull loop, line 167
OffScreen(ob) == ob.x + XU(ob.width) < 0

\* while (obstacles.length && off-screen(obstacles[0])) obstacles.shift()
RECURSIVE Cull(_)
Cull(obs) ==
    IF Len(obs) > 0 /\ OffScreen(Head(obs)) THEN Cull(Tail(obs)) ELSE obs

\* lines 172-181
JustCompleted(p) ==
    /\ p.celebratoryRun
    /\ ~p.letterCelebrated
    /\ letterSequenceLength > 0
    /\ p.letterProgress >= letterSequenceLength

StepCelebrate(p) ==
    IF JustCompleted(p)
    THEN [ p EXCEPT !.letterCelebrated = TRUE, !.spawnCooldown = Infinity ]
    ELSE p

\* the bounding-box test, lines 184-197
Hit(p, ob) ==
    /\ XU(dinoX - 20) < ob.x + XU(ob.width)
    /\ XU(dinoX - 20) + XU(40) > ob.x
    /\ p.dinoY - YU(30) < YU(groundY + 10 - ob.height) + YU(ob.height)
    /\ p.dinoY - YU(30) + YU(40) > YU(groundY + 10 - ob.height)

Collides(p) == \E i \in 1..Len(p.obstacles) : Hit(p, p.obstacles[i])

\* a score update that throws the fraction away when the integer grows
StepScore_dropsResidual(p, f) ==
    LET acc == p.scoreAcc + p.speed * f
    IN  IF acc >= ScoreU(1)
        THEN [ p EXCEPT !.scoreInt = @ + acc \div ScoreU(1), !.scoreAcc = 0 ]
        ELSE [ p EXCEPT !.scoreAcc = acc ]

\* lines 204-210; the divisor is the literal 6
StepScore(p, f) ==
    LET acc == p.scoreAcc + p.speed * f
        inc == acc \div ScoreU(1)
    IN  IF acc >= ScoreU(1)
        THEN [ p EXCEPT !.scoreInt = @ + inc, !.scoreAcc = acc - ScoreU(inc) ]
        ELSE [ p EXCEPT !.scoreAcc = acc ]

\* step(input, frames): the state after the call and what the call returns.
\* History, not returned by the source: removed, the obstacles the cull loop
\* shifted out in this call, and wasAirborne, dinoY < groundY at its start.
DinoPhysics_step(p, jump, frames, d) ==
    LET f == Max(0, frames)
    IN  Let([ p EXCEPT !.t = @ + f, !.speed = StepSpeed(p) ], LAMBDA p0 :
        Let(StepVertical(p0, jump, f), LAMBDA p1 :
        Let(StepSpawn(p1, f, d), LAMBDA p2 :
        Let(StepMove(p2, f), LAMBDA p3 :
        Let([ p3 EXCEPT !.obstacles = Cull(@) ], LAMBDA p4 :
        Let(StepCelebrate(p4), LAMBDA p5 :
        Let(StepScore(p5, f), LAMBDA p6 :
            [ p |-> p6,
              done |-> Collides(p5),
              wasAirborne |-> p.dinoY < YU(groundY),
              justCompleted |-> JustCompleted(p4),
              removed |-> SubSeq(p3.obstacles, 1,
                                 Len(p3.obstacles) - Len(p4.obstacles)) ])))))))

-----------------------------------------------------------------------------
(* Inputs of the physics engine                                            *)

MaxCalls == 3

\* frames per call, in half frames: -1 (taken as 0), 1/2, 12, 18, 60, 120
\* frames
FrameSet == { -2, 1, 24, 36, 120, 240 }

\* 20 + floor(random * 30), 10 + floor(random * 20), 60 + random * 40
Heights == { 20, 49 }
Widths == { 10, 29 }
Cooldowns == { Frames(60), Frames(100) - 1 }
Draws == [ height : Heights, width : Widths, cooldown : Cooldowns ]

\* the draws a call consumes: Math.random() is called only on the cactus branch
NoDraw == [ height |-> 20, width |-> 10, cooldown |-> Frames(60) ]
DrawsFor(p, frames) ==
    IF ~p.celebratoryRun /\ CooldownMinus(p.spawnCooldown, Max(0, frames)) <= 0
    THEN Draws ELSE { NoDraw }

\* history of the last call: what it returned, removed and wasAirborne (see
\* DinoPhysics_step), and the inputs it was given
NoInput == [ jump |-> FALSE, frames |-> 0, d |-> NoDraw ]
NoResult == [ done |-> FALSE, justCompleted |-> FALSE, wasAirborne |-> FALSE,
              removed |-> << >>, input |-> NoInput ]

Idle == "idle"

-----------------------------------------------------------------------------
(* SpecPhysics: a DinoPhysics instance driven by arbitrary callers         *)

InitPhysics ==
    /\ physics \in { DinoPhysics_new(c) : c \in BOOLEAN }
    /\ result = NoResult
    /\ calls = 0
    /\ env = Idle /\ out = Idle /\ replay = Idle /\ added = Idle
    /\ worker = Idle /\ twin = Idle /\ agent = Idle /\ sampled = Idle
    /\ parked = Idle

PhysicsReset ==
    /\ physics' = DinoPhysics_reset(physics)
    /\ result' = NoResult
    /\ calls' = 0
    /\ UNCHANGED <<env, out, replay, added, worker, twin, agent, sampled>>
    /\ UNCHANGED parked

PhysicsStep ==
    /\ calls < MaxCalls
    /\ \E jump \in BOOLEAN, frames \in FrameSet :
       \E d \in DrawsFor(physics, frames) :
       \E r \in { DinoPhysics_step(physics, jump, frames, d) } :
             /\ physics' = r.p
             /\ result' = [ done |-> r.done, justCompleted |-> r.justCompleted,
                            wasAirborne |-> r.wasAirborne,
                            removed |-> r.removed,
                            input |-> [ jump |-> jump, frames |-> frames,
                                        d |-> d ] ]
    /\ calls' = calls + 1
    /\ UNCHANGED <<env, out, replay, added, worker, twin, agent, sampled>>
    /\ UNCHANGED parked

NextPhysics == PhysicsReset \/ PhysicsStep

SpecPhysics == InitPhysics /\ [][NextPhysics]_vars

Range(seq) == { seq[i] : i \in 1..Len(seq) }

\* C1: in every snapshot the actor is not below the ground line
\* (dinoY <= groundY), and whenever it is exactly on the ground line its
\* vertical velocity is exactly 0.
C1_GroundClamp ==
    /\ physics.dinoY <= 40 * groundY
    /\ physics.dinoY = 40 * groundY => physics.velY = 0

\* C1 witness: a step that started airborne has landed the actor.
C1_Landed ==
    /\ calls > 0
    /\ result.wasAirborne
    /\ physics.dinoY = 40 * groundY
    /\ physics.velY = 0

\* C9, over one step call: an obstacle that was live is afterwards live or
\* was culled by this call, and its passed flag never goes back; the
\* cleared count grows by exactly the number of obstacles whose flag went
\* false -> true in this call; every culled obstacle has x + width < 0.
C9_Step ==
    calls' = calls + 1 =>
        LET before == Range(physics.obstacles)
            culled == Range(result'.removed)
            after  == Range(physics'.obstacles) \cup culled
            newly  == { o \in after : o.passed /\
                          ~\E b \in before : b.id = o.id /\ b.passed }
        IN  /\ \A b \in before :
                  \E o \in after : o.id = b.id /\ (b.passed => o.passed)
            /\ physics'.obstaclesCleared =
                  physics.obstaclesCleared + Cardinality(newly)
            /\ \A o \in culled : o.x + 300 * o.width < 0

\* C9, in every state: the cleared count is the number of obstacles marked
\* passed since the reset, the culled ones (all passed) and the live ones.
C9_Count ==
    physics.obstaclesCleared =
        (physics.spawned - Len(physics.obstacles))
        + Cardinality({ i \in 1..Len(physics.obstacles) :
                          physics.obstacles[i].passed })

\* C9: the passed flag is set at most once per obstacle and never cleared,
\* obstaclesCleared counts exactly those transitions, and an obstacle leaves
\* the live list only in a step in which its trailing edge is negative.
C9_PassedOnce == [][C9_Step]_vars /\ []C9_Count

\* C9 witness: a step has culled an obstacle that had been counted.
C9_Culled ==
    /\ calls > 0
    /\ Len(result.removed) > 0
    /\ physics.obstaclesCleared >= 1

\* C11: a step call made when the previous call returned done = true, with
\* no reset() in between, leaves position, velocity, obstacle list, score and
\* cleared count unchanged (the source has no error path).
C11_Step ==
    (result.done /\ calls' = calls + 1) =>
        /\ physics'.dinoY = physics.dinoY
        /\ physics'.velY = physics.velY
        /\ physics'.obstacles = physics.obstacles
        /\ physics'.scoreInt = physics.scoreInt
        /\ physics'.obstaclesCleared = physics.obstaclesCleared

C11_FrozenAfterDone == [][C11_Step]_vars

\* C14, over one step call with jump asserted: started airborne, it leaves
\* the state and returns the result of the same call without jump; started on
\* the ground, it integrates from the launch velocity.
C14_Step ==
    (calls' = calls + 1 /\ result'.input.jump) =>
        LET in == result'.input
            f == Max(0, in.frames)
            plain == DinoPhysics_step(physics, FALSE, in.frames, in.d)
        IN  IF physics.dinoY < YU(groundY)
            THEN /\ physics' = plain.p
                 /\ result'.done = plain.done
                 /\ result'.removed = plain.removed
            ELSE physics'.dinoY < YU(groundY) =>
                    physics'.velY = VelU(jumpVelocity) + gravityTenths * f

C14_NoDoubleJump == [][C14_Step]_vars

\* C14 witness: a call with jump asserted started airborne and ended
\* airborne.
C14_JumpedAirborne ==
    /\ calls > 0
    /\ result.input.jump
    /\ result.wasAirborne
    /\ physics.dinoY < YU(groundY)

\* the state reset() leaves, whatever the state before
Canonical(celebratoryRun) ==
    [ celebratoryRun |-> celebratoryRun, velY |-> 0, dinoY |-> YU(groundY),
      speed |-> SpeedU(baseSpeed), obstacles |-> << >>,
      spawnCooldown |-> Frames(30), scoreInt |-> 0, scoreAcc |-> 0,
      obstaclesCleared |-> 0, letterQueueIndex |-> 0, letterProgress |-> 0,
      letterCelebrated |-> FALSE, t |-> 0, spawned |-> 0 ]

\* C19: from every reachable state reset() yields the same state: actor on
\* the ground with velocity 0, speed = baseSpeed, no obstacles, score and
\* accumulator 0, cleared count 0, spawn cooldown 30; a second reset()
\* changes nothing.
C19_ResetCanonical ==
    LET q == DinoPhysics_reset(physics)
    IN  /\ q = Canonical(physics.celebratoryRun)
        /\ DinoPhysics_reset(q) = q

\* C19 witness: a state from which reset() has work to do in every group of
\* fields: airborne, obstacles live, one cleared, score and accumulator
\* nonzero.
C19_Dirty ==
    /\ physics.dinoY < YU(groundY)
    /\ Len(physics.obstacles) > 0
    /\ physics.obstaclesCleared > 0
    /\ physics.scoreInt > 0
    /\ physics.scoreAcc > 0
    /\ physics.speed > SpeedU(baseSpeed)

\* C31: after every step no obstacle of the live list has its trailing edge
\* x + width below 0.
C31_NoneOffScreen ==
    \A i \in 1..Len(physics.obstacles) :
        physics.obstacles[i].x + 300 * physics.obstacles[i].width >= 0

\* C33, over one step call: the integer score does not decrease, and
\* scoreInt + scoreAcc grows by exactly (speed / 6) * frames, with the speed
\* of this call and frames taken as max(0, frames); both are 0 after reset()
\* and after construction, so the total is the sum over the steps since.
C33_Step ==
    calls' = calls + 1 =>
        /\ physics'.scoreInt >= physics.scoreInt
        /\ 1800 * physics'.scoreInt + physics'.scoreAcc =
               1800 * physics.scoreInt + physics.scoreAcc
               + physics'.speed * Max(0, result'.input.frames)

\* C33, in every state: 0 <= scoreAcc < 1.
C33_Fraction == physics.scoreAcc >= 0 /\ physics.scoreAcc < 1800

\* C33, after a reset: the integer score and the accumulator are 0.
C33_Reset == calls' = 0 => physics'.scoreInt = 0 /\ physics'.scoreAcc = 0

C33_ScoreIsTheSum == [][C33_Step /\ C33_Reset]_vars /\ []C33_Fraction

\* C33 witness: the last call took the accumulator across a whole number and
\* left a fraction behind.
C33_CrossedWithResidue ==
    /\ calls > 0
    /\ physics.scoreInt > 0
    /\ physics.scoreAcc > 0
    /\ physics.scoreAcc < physics.speed * Max(0, result.input.frames)

-----------------------------------------------------------------------------
(* SpecJump: a DinoPhysics instance stepped one frame at a time, after a   *)
(* first call of any length                                                *)

MaxJumpCalls == 40

\* History of the flight: air, the one-frame calls in a row that ended
\* airborne; flight, that number plus one when the last call landed the
\* actor; pressed, the last call started airborne and it or an earlier call
\* of the flight that started airborne had jump set.
NoFlight == [ done |-> FALSE, justCompleted |-> FALSE, wasAirborne |-> FALSE,
              removed |-> << >>, input |-> NoInput,
              air |-> 0, flight |-> 0, pressed |-> FALSE ]

Flight(r, jump, oneFrame) ==
    LET up == r.p.dinoY < YU(groundY)
    IN  [ done |-> r.done, justCompleted |-> r.justCompleted,
          wasAirborne |-> r.wasAirborne, removed |-> r.removed,
          air |-> IF ~up THEN 0 ELSE IF oneFrame THEN result.air + 1 ELSE 0,
          flight |-> IF r.wasAirborne /\ ~up /\ oneFrame
                     THEN result.air + 1 ELSE 0,
          pressed |-> r.wasAirborne /\ (result.pressed \/ jump) ]

InitJump ==
    /\ physics \in { DinoPhysics_new(c) : c \in BOOLEAN }
    /\ result = NoFlight
    /\ calls = 0
    /\ env = Idle /\ out = Idle /\ replay = Idle /\ added = Idle
    /\ worker = Idle /\ twin = Idle /\ agent = Idle /\ sampled = Idle
    /\ parked = Idle

\* the first call: step(input, frames) with any frames
JumpFirst ==
    /\ calls = 0
    /\ \E jump \in BOOLEAN, frames \in FrameSet :
       \E d \in DrawsFor(physics, frames) :
       \E r \in { DinoPhysics_step(physics, jump, frames, d) } :
             /\ physics' = r.p
             /\ result' = [ Flight(r, jump, FALSE) EXCEPT
                              !.input = [ jump |-> jump, frames |-> frames,
                                          d |-> d ] ]
    /\ calls' = calls + 1
    /\ UNCHANGED <<env, out, replay, added, worker, twin, agent, sampled>>
    /\ UNCHANGED parked

\* step(input, 1)
JumpStep ==
    /\ calls < MaxJumpCalls
    /\ \E jump \in BOOLEAN :
       \E d \in DrawsFor(physics, Frames(1)) :
       \E r \in { DinoPhysics_step(physics, jump, Frames(1), d) } :
             /\ physics' = r.p
             /\ result' = [ Flight(r, jump, TRUE) EXCEPT
                              !.input = [ jump |-> jump, frames |-> Frames(1),
                                          d |-> d ] ]
    /\ calls' = calls + 1
    /\ UNCHANGED <<env, out, replay, added, worker, twin, agent, sampled>>
    /\ UNCHANGED parked

NextJump == JumpFirst \/ JumpStep

SpecJump == InitJump /\ [][NextJump]_vars

\* C38: the actor is never airborne after 31 one-frame calls in a row, and
\* on the ground its velocity is 0.  (A jump from the ground with one-frame
\* calls is at height 14 n - 0.45 n (n + 1) after n calls, positive up to
\* n = 30.)
C38_LandsWithin31 ==
    /\ result.air < 31
    /\ physics.dinoY = 40 * groundY => physics.velY = 0

\* C38 witness: a flight of 31 one-frame calls has ended on the ground, with
\* jump set in a call that started airborne.
C38_LongestFlight ==
    /\ result.flight = 31
    /\ physics.dinoY = 40 * groundY
    /\ physics.velY = 0
    /\ result.pressed

-----------------------------------------------------------------------------
(* SpecTwin: two DinoPhysics instances, one of them with a history of its  *)
(* own, then reset() on both and the same calls and spawn draws to both    *)

MaxWarm == 2

\* the fields of an Obstacle that the source has
ObstacleOf(ob) == [ x |-> ob.x, width |-> ob.width, height |-> ob.height,
                    passed |-> ob.passed, kind |-> ob.kind,
                    sequenceIndex |-> ob.sequenceIndex ]

\* the object step() returns, lines 212-222
Snapshot(p, res) ==
    [ done |-> res.done,
      score |-> p.scoreInt,
      speed |-> p.speed,
      dinoY |-> p.dinoY,
      obstacles |-> [ i \in 1..Len(p.obstacles) |-> ObstacleOf(p.obstacles[i]) ],
      obstaclesCleared |-> p.obstaclesCleared,
      letterSequenceProgress |-> p.letterProgress,
      letterSequenceJustCompleted |-> res.justCompleted ]

\* History of the second instance: warm, its calls before the reset; synced,
\* both instances were reset and have been given the same calls since;
\* differed, the two instances were in different states when they were reset.
Twin_new(celebratoryRun) ==
    [ p |-> DinoPhysics_new(celebratoryRun), res |-> NoResult,
      warm |-> 0, synced |-> FALSE, differed |-> FALSE ]

InitTwin ==
    /\ \E c \in BOOLEAN :
         /\ physics = DinoPhysics_new(c)
         /\ twin = Twin_new(c)
    /\ result = NoResult
    /\ calls = 0
    /\ env = Idle /\ out = Idle /\ replay = Idle /\ added = Idle
    /\ worker = Idle /\ agent = Idle /\ sampled = Idle
    /\ parked = Idle

\* a call on the second instance alone, before the reset
TwinWarm ==
    /\ ~twin.synced
    /\ twin.warm < MaxWarm
    /\ \E jump \in BOOLEAN, frames \in FrameSet :
       \E d \in DrawsFor(twin.p, frames) :
       \E r \in { DinoPhysics_step(twin.p, jump, frames, d) } :
             twin' = [ twin EXCEPT
                 !.p = r.p,
                 !.res = [ done |-> r.done, justCompleted |-> r.justCompleted,
                           wasAirborne |-> r.wasAirborne,
                           removed |-> r.removed,
                           input |-> [ jump |-> jump, frames |-> frames,
                                       d |-> d ] ],
                 !.warm = @ + 1 ]
    /\ UNCHANGED <<physics, result, calls, env, out, replay, added, worker, agent, sampled>>
    /\ UNCHANGED parked

\* reset() on each instance
TwinReset ==
    /\ physics' = DinoPhysics_reset(physics)
    /\ result' = NoResult
    /\ calls' = 0
    /\ twin' = [ twin EXCEPT !.p = DinoPhysics_reset(twin.p),
                             !.res = NoResult,
                             !.synced = TRUE,
                             !.differed = IF twin.synced THEN @
                                          ELSE physics # twin.p ]
    /\ UNCHANGED <<env, out, replay, added, worker, agent, sampled>>
    /\ UNCHANGED parked

\* the same step(input, frames) on each instance, with the same draws
TwinStep ==
    /\ twin.synced
    /\ calls < MaxCalls
    /\ \E jump \in BOOLEAN, frames \in FrameSet :
       \E d \in DrawsFor(physics, frames) :
       \E r \in { DinoPhysics_step(physics, jump, frames, d) } :
       \E r2 \in { DinoPhysics_step(twin.p, jump, frames, d) } :
             /\ physics' = r.p
             /\ result' = [ done |-> r.done, justCompleted |-> r.justCompleted,
                            wasAirborne |-> r.wasAirborne,
                            removed |-> r.removed,
                            input |-> [ jump |-> jump, frames |-> frames,
                                        d |-> d ] ]
             /\ twin' = [ twin EXCEPT
                   !.p = r2.p,
                   !.res = [ done |-> r2.done,
                             justCompleted |-> r2.justCompleted,
                             wasAirborne |-> r2.wasAirborne,
                             removed |-> r2.removed,
                             input |-> [ jump |-> jump, frames |-> frames,
                                         d |-> d ] ] ]
    /\ calls' = calls + 1
    /\ UNCHANGED <<env, out, replay, added, worker, agent, sampled>>
    /\ UNCHANGED parked

NextTwin == TwinWarm \/ TwinReset \/ TwinStep

SpecTwin == InitTwin /\ [][NextTwin]_vars

\* C18: two instances that were reset and then given the same step inputs,
\* frame counts and spawn draws return the same snapshot at every call,
\* whatever each of them did before its reset.
C18_SameSnapshots ==
    twin.synced => Snapshot(physics, result) = Snapshot(twin.p, twin.res)

\* C18 witness: the instances were in different states when they were reset,
\* and MaxCalls common calls later an obstacle is on the track.
C18_AfterDifferentHistories ==
    /\ twin.synced
    /\ twin.differed
    /\ calls = MaxCalls
    /\ Len(physics.obstacles) > 0
    /\ physics.scoreInt > 0

\* strictly ascending x, in the order of spawning
Ascending(obs) ==
    \A i \in 1..Len(obs) : \A j \in 1..Len(obs) :
        i < j => obs[i].x < obs[j].x /\ obs[i].id < obs[j].id

\* C30: once reset() has been called on an instance, its obstacle list is at
\* every moment in strictly ascending order of x and in the order of
\* spawning, the oldest first.
C30_Ascending ==
    twin.synced => Ascending(physics.obstacles) /\ Ascending(twin.p.obstacles)

\* C30 witness: after the reset, a second obstacle was spawned behind one
\* that is still on the track.
C30_TwoLive ==
    /\ twin.synced
    /\ twin.warm > 0
    /\ Len(physics.obstacles) >= 2
    /\ physics.obstacles[1].x > 0

-----------------------------------------------------------------------------
(* ReplayBuffer, src/unnamed/part_006 lines 14-36                          *)

ReplayBuffer_new(capacity) == [ buf |-> << >>, idx |-> 0, capacity |-> capacity ]

\* an add that never advances the write index
ReplayBuffer_add_stuck(r, t) ==
    IF Len(r.buf) < r.capacity
    THEN [ r EXCEPT !.buf = Append(@, t) ]
    ELSE [ r EXCEPT !.buf[r.idx + 1] = t ]

\* the idx that (idx + 1) % 0 leaves: NaN, which is no array index
NaN == -1

\* JavaScript's a % b for a >= 0: NaN when b is 0, else a mod |b|
JsMod(a, b) ==
    IF b = 0 THEN NaN ELSE IF b < 0 THEN a % (0 - b) ELSE a % b

\* add(t); buf is 0-indexed in the source, 1-indexed here.  An assignment
\* buf[idx] = t at idx = buf.length extends the array, and at idx NaN it sets
\* a property that is no element.
ReplayBuffer_add(r, t) ==
    LET b == IF Len(r.buf) < r.capacity
             THEN Append(r.buf, t)
             ELSE IF r.idx = NaN THEN r.buf
             ELSE IF r.idx = Len(r.buf) THEN Append(r.buf, t)
             ELSE [ r.buf EXCEPT ![r.idx + 1] = t ]
    IN  [ r EXCEPT !.buf = b,
                   !.idx = IF r.idx = NaN THEN NaN
                           ELSE JsMod(r.idx + 1, r.capacity) ]

ReplayBuffer_size(r) == Len(r.buf)

\* stands for undefined in a returned array: no transition has seq 0
Undefined == [ seq |-> 0, done |-> FALSE ]

\* the indices (Math.random() * this.buf.length) | 0 can take, n times
PicksFor(r, n) == [ 1..n -> 0..Max(0, Len(r.buf) - 1) ]

\* sample(n), lines 29-35; picks are the n indices drawn.  The method has no
\* throw statement, and reading an element that is not there gives undefined.
ReplayBuffer_sample(r, picks) ==
    [ threw |-> FALSE,
      out |-> [ i \in 1..Len(picks) |->
                  IF picks[i] < Len(r.buf) THEN r.buf[picks[i] + 1]
                  ELSE Undefined ] ]

MaxCapacity == 3
MaxAdds == 6
MaxSample == 2

\* History of the last sample(n) call: n, the occupancy it found, and what
\* it did (threw, or returned out).
NoSample == [ n |-> 0, size |-> 0, threw |-> FALSE, out |-> << >> ]

\* a transition: seq is its identity (the order in which the caller made
\* it), done its terminal flag; the other fields are not read by the buffer
Transitions(n) == [ seq : { n }, done : BOOLEAN ]

InitReplay ==
    /\ replay \in { ReplayBuffer_new(c) : c \in 1..MaxCapacity }
    /\ added = << >>
    /\ physics = Idle /\ result = Idle /\ calls = 0
    /\ env = Idle /\ out = Idle /\ worker = Idle
    /\ twin = Idle /\ agent = Idle /\ sampled = NoSample
    /\ parked = Idle

ReplayAdd ==
    /\ Len(added) < MaxAdds
    /\ \E t \in Transitions(Len(added) + 1) :
         /\ replay' = ReplayBuffer_add(replay, t)
         /\ added' = Append(added, t)
    /\ UNCHANGED <<physics, result, calls, env, out, worker, twin, agent, sampled>>
    /\ UNCHANGED parked

ReplaySample ==
    /\ \E n \in 1..MaxSample :
       \E picks \in PicksFor(replay, n) :
       \E r \in { ReplayBuffer_sample(replay, picks) } :
          sampled' = [ n |-> n, size |-> ReplayBuffer_size(replay),
                       threw |-> r.threw, out |-> r.out ]
    /\ UNCHANGED <<physics, result, calls, env, out, worker, twin, agent>>
    /\ UNCHANGED parked
    /\ UNCHANGED <<replay, added>>

NextReplay == ReplayAdd \/ ReplaySample

SpecReplay == InitReplay /\ [][NextReplay]_vars

\* C2: on a buffer of capacity N >= 1, size() = min(number of adds, N) at
\* every moment, and the buffer holds exactly the size() most recently added
\* transitions; so after N + k adds, k > 0, the k oldest are gone.
C2_MostRecent ==
    replay.capacity >= 1 =>
        /\ ReplayBuffer_size(replay) = Min(Len(added), replay.capacity)
        /\ Range(replay.buf) =
             { added[i] : i \in (Len(added) - Len(replay.buf) + 1)..Len(added) }

\* C2 witness: capacity + 2 adds on a buffer of capacity >= 2.
C2_Wrapped ==
    /\ replay.capacity >= 2
    /\ Len(added) >= replay.capacity + 2

\* C16: a sample(n) call with n >= 1 that finds the buffer empty throws and
\* returns nothing.
C16_EmptySampleThrows ==
    (sampled.n >= 1 /\ sampled.size = 0) =>
        sampled.threw /\ sampled.out = << >>

-----------------------------------------------------------------------------
(* DQN, src/unnamed/part_006 lines 74-204: construction, the buffer, the   *)
(* two networks and the two stored models                                  *)

\* A parameter set is named by where it comes from: the one buildNet() draws
\* (0 updates), the one after k updates by the optimizer, or one that an
\* earlier session stored.
Params(k) == [ from |-> "session", updates |-> k ]
Earlier == [ from |-> "earlier", updates |-> 0 ]

\* what indexeddb://dino-dqn-online and ...-target can hold besides a model
Missing == [ from |-> "missing", updates |-> 0 ]
Unreadable == [ from |-> "unreadable", updates |-> 0 ]

\* tf.loadLayersModel resolves
Readable(blob) == blob.from \notin { "missing", "unreadable" }

\* the parameters after one step of the optimizer
Stepped(params) == [ params EXCEPT !.updates = @ + 1 ]

\* syncTargetSoft: online * tau + target * (1 - tau), a set of its own
Blend(online, target) == [ from |-> "blend", updates |-> online.updates ]

\* History: made, the constructor has returned; op, the last call; threw, it
\* threw or its promise rejected; returned, what train() returned ("loss"
\* for a number); syncs, the target updates the call ran; calls, the calls
\* made.  tau is in thousandths.
NotMade(store) ==
    [ made |-> FALSE, batchSize |-> 1, updateEvery |-> 1, targetSync |-> 1,
      tau |-> 0, warmup |-> 0, replay |-> ReplayBuffer_new(1), steps |-> 0,
      online |-> Params(0), target |-> Params(0),
      store |-> store, op |-> "none", threw |-> FALSE, returned |-> "none",
      syncs |-> {}, calls |-> 0 ]

\* constructor, lines 93-109: no option is tested; syncTargetHard() makes
\* the target a copy of the online network
DQN_new(a, opts) ==
    [ a EXCEPT !.made = TRUE,
               !.batchSize = opts.batchSize,
               !.updateEvery = opts.updateEvery,
               !.targetSync = opts.targetSync,
               !.tau = opts.tau,
               !.warmup = opts.warmup,
               !.replay = ReplayBuffer_new(opts.replaySize),
               !.steps = 0,
               !.online = Params(0),
               !.target = Params(0),
               !.op = "new", !.threw = FALSE ]

\* observe(t)
DQN_observe(a, t) ==
    [ a EXCEPT !.replay = ReplayBuffer_add(@, t), !.op = "observe",
               !.threw = FALSE, !.returned = "none", !.syncs = {},
               !.calls = @ + 1 ]

\* a train() that takes a gradient step on every call after the warm-up
TrainDue_everyCall(size, warmup, steps, updateEvery) == size >= warmup

\* lines 151-152, read after this.steps++: neither early return is taken
TrainDue(size, warmup, steps, updateEvery) ==
    size >= warmup /\ steps % updateEvery = 0

\* a train() that runs the hard overwrite whatever tau is
TargetSyncs_both(tau, steps, targetSync) ==
    (IF tau > 0 THEN { "soft" } ELSE {})
        \cup (IF steps % targetSync = 0 THEN { "hard" } ELSE {})

\* lines 177-179: if (tau > 0) soft; else if (steps % targetSync === 0) hard
TargetSyncs(tau, steps, targetSync) ==
    IF tau > 0 THEN { "soft" }
    ELSE IF steps % targetSync = 0 THEN { "hard" }
    ELSE {}

\* train(): the states it can leave.  A batch with an undefined entry makes
\* b.obs throw; what TensorFlow.js does with an empty batch is not in the
\* source, so it either throws or updates.
DQN_train(a, picks) ==
    LET b == [ a EXCEPT !.steps = @ + 1, !.op = "train", !.threw = FALSE,
                        !.returned = "undefined", !.syncs = {},
                        !.calls = @ + 1 ]
        batch == ReplayBuffer_sample(a.replay, picks).out
        thrown == [ b EXCEPT !.threw = TRUE, !.returned = "none" ]
        online == Stepped(a.online)
        syncs == TargetSyncs(a.tau, b.steps, a.targetSync)
        soft == IF "soft" \in syncs THEN Blend(online, a.target) ELSE a.target
        updated == [ b EXCEPT !.online = online,
                              !.target = IF "hard" \in syncs THEN online
                                         ELSE soft,
                              !.syncs = syncs,
                              !.returned = "loss" ]
    IN  IF ~TrainDue(ReplayBuffer_size(a.replay), a.warmup, b.steps,
                     a.updateEvery)
        THEN { b }
        ELSE IF \E i \in 1..Len(batch) : batch[i] = Undefined THEN { thrown }
        ELSE IF Len(batch) = 0 THEN { thrown, updated }
        ELSE { updated }

\* save(), lines 191-194: the online model is written, then the target
\* model; failed names the write that rejects
DQN_save(a, failed) ==
    [ a EXCEPT !.store = IF failed = "online" THEN @
                         ELSE IF failed = "target"
                              THEN [ @ EXCEPT !.online = a.online ]
                         ELSE [ online |-> a.online, target |-> a.target ],
               !.op = "save", !.threw = failed # "none",
               !.returned = "none", !.syncs = {}, !.calls = @ + 1 ]

\* load(), lines 196-203: this.online is assigned as soon as the first model
\* has loaded, and catch (e) {} swallows the failure of either
DQN_load(a) ==
    LET b == [ a EXCEPT !.op = "load", !.threw = FALSE, !.returned = "none",
                        !.syncs = {}, !.calls = @ + 1 ]
    IN  IF ~Readable(a.store.online) THEN b
        ELSE IF ~Readable(a.store.target)
             THEN [ b EXCEPT !.online = a.store.online ]
        ELSE [ b EXCEPT !.online = a.store.online, !.target = a.store.target ]

MaxAgentCalls == 4

\* the options of the constructor the model draws from
ReplaySizes == { -2, 0, 1, 2 }
BatchSizes == { -1, 0, 1, 2 }
DQNOptions ==
    [ replaySize : ReplaySizes, batchSize : BatchSizes, warmup : { 0, 1 },
      updateEvery : { 1, 2 }, targetSync : { 2, 3 }, tau : { 0, 5 } ]

InitAgent ==
    /\ agent \in { NotMade([ online |-> o, target |-> t ]) :
                      o \in { Missing, Unreadable, Earlier },
                      t \in { Missing, Unreadable, Earlier } }
    /\ physics = Idle /\ result = Idle /\ calls = 0
    /\ env = Idle /\ out = Idle /\ worker = Idle
    /\ replay = Idle /\ added = Idle /\ sampled = Idle /\ twin = Idle
    /\ parked = Idle

AgentNew ==
    /\ ~agent.made
    /\ \E opts \in DQNOptions : agent' = DQN_new(agent, opts)
    /\ UNCHANGED <<physics, result, calls, env, out, replay, added, sampled>>
    /\ UNCHANGED parked
    /\ UNCHANGED <<worker, twin>>

AgentObserve ==
    /\ agent.made
    /\ agent.calls < MaxAgentCalls
    /\ agent' = DQN_observe(agent, [ seq |-> agent.calls + 1, done |-> FALSE ])
    /\ UNCHANGED <<physics, result, calls, env, out, replay, added, sampled>>
    /\ UNCHANGED parked
    /\ UNCHANGED <<worker, twin>>

AgentTrain ==
    /\ agent.made
    /\ agent.calls < MaxAgentCalls
    /\ \E picks \in PicksFor(agent.replay, Max(0, agent.batchSize)) :
          agent' \in DQN_train(agent, picks)
    /\ UNCHANGED <<physics, result, calls, env, out, replay, added, sampled>>
    /\ UNCHANGED parked
    /\ UNCHANGED <<worker, twin>>

AgentSave ==
    /\ agent.made
    /\ agent.calls < MaxAgentCalls
    /\ \E failed \in { "none", "online", "target" } :
          agent' = DQN_save(agent, failed)
    /\ UNCHANGED <<physics, result, calls, env, out, replay, added, sampled>>
    /\ UNCHANGED parked
    /\ UNCHANGED <<worker, twin>>

AgentLoad ==
    /\ agent.made
    /\ agent.calls < MaxAgentCalls
    /\ agent' = DQN_load(agent)
    /\ UNCHANGED <<physics, result, calls, env, out, replay, added, sampled>>
    /\ UNCHANGED parked
    /\ UNCHANGED <<worker, twin>>

NextAgent ==
    AgentNew \/ AgentObserve \/ AgentTrain \/ AgentSave \/ AgentLoad

SpecAgent == InitAgent /\ [][NextAgent]_vars

\* C15, over one load() call: it does not throw, and when either stored
\* model is missing or unreadable the online and the target parameter sets
\* after the call are the ones the agent held before it.
C15_Step ==
    (agent'.calls = agent.calls + 1 /\ agent'.op = "load") =>
        /\ ~agent'.threw
        /\ (~Readable(agent.store.online) \/ ~Readable(agent.store.target)) =>
              /\ agent'.online = agent.online
              /\ agent'.target = agent.target

C15_FailedLoadKeepsBoth == [][C15_Step]_vars

\* C17: no DQN exists whose buffer capacity (replaySize) or batchSize is
\* <= 0, the constructors having rejected it, so that no observe(), train()
\* or sample() runs on one.
C17_RejectedAtConstruction ==
    agent.made => agent.replay.capacity > 0 /\ agent.batchSize > 0

\* C22, over one train() call: the call counter grows by one; a loss is
\* returned and the online parameters change only when the occupancy is at
\* least warmup and the new counter is a multiple of updateEvery; on any
\* other call undefined is returned and both parameter sets are unchanged.
C22_Step ==
    (agent'.calls = agent.calls + 1 /\ agent'.op = "train") =>
        LET due == /\ ReplayBuffer_size(agent.replay) >= agent.warmup
                   /\ (agent.steps + 1) % agent.updateEvery = 0
        IN  /\ agent'.steps = agent.steps + 1
            /\ (agent'.returned = "loss" \/ agent'.online # agent.online) => due
            /\ ~due => /\ agent'.returned = "undefined"
                       /\ agent'.online = agent.online
                       /\ agent'.target = agent.target

C22_TrainGate == [][C22_Step]_vars

\* C22 witness: with warmup 1 and updateEvery 2, a train() on the empty
\* buffer was counted, and the next train(), the second call, returned a loss.
C22_SecondCallTrains ==
    /\ agent.op = "train"
    /\ agent.returned = "loss"
    /\ agent.warmup = 1
    /\ agent.updateEvery = 2
    /\ agent.steps = 2
    /\ agent.calls = 3

\* C23: a train() call runs at most one of the two target updates, the soft
\* blend only when tau > 0 and the hard overwrite only when tau = 0.
C23_OneSyncMode ==
    /\ Cardinality(agent.syncs) <= 1
    /\ agent.tau > 0 => agent.syncs \subseteq { "soft" }
    /\ agent.tau = 0 => agent.syncs \subseteq { "hard" }

\* C23 witness: with tau > 0, a gradient step at a step count that is a
\* multiple of targetSync ran the soft blend.
C23_SoftAtSyncStep ==
    /\ agent.op = "train"
    /\ agent.tau > 0
    /\ agent.syncs = { "soft" }
    /\ agent.steps % agent.targetSync = 0

\* C24, over one train() call with tau = 0 that does not throw: when the
\* warm-up is over and the new step count is a multiple of targetSync, the
\* target parameters after the call are the online parameters.
C24_Step ==
    (/\ agent'.calls = agent.calls + 1
     /\ agent'.op = "train"
     /\ ~agent'.threw
     /\ agent.tau = 0
     /\ ReplayBuffer_size(agent.replay) >= agent.warmup
     /\ agent'.steps % agent.targetSync = 0) =>
        /\ agent'.syncs = { "hard" }
        /\ agent'.target = agent'.online

C24_HardSyncEveryInterval == [][C24_Step]_vars

-----------------------------------------------------------------------------
(* DinoEnv, src/unnamed/part_007                                           *)

ActionIdle == 0
ActionJump == 1
ActionDuck == 2

OBS_SIZE == 7

\* reward shaping parameters, in units of 1/10000
surviveReward == 30
progressScale == 5
clearReward == 20000
jumpProximityBonus == 500
jumpFarPenalty == -200
terminalReward == -10000
\* jumpProximityThreshold = 0.25, as the denominator of 1/4
jumpProximityThresholdInv == 4

\* exact fractions n/d, d > 0, kept in lowest terms
RECURSIVE GCD(_, _)
GCD(a, b) == IF b = 0 THEN a ELSE Let(a % b, LAMBDA r : GCD(b, r))
Frac(n, d) ==
    Let(GCD(IF n < 0 THEN -n ELSE n, d), LAMBDA g :
        [ n |-> n \div g, d |-> d \div g ])
\* Math.max(0, Math.min(1, q))
Clamp01(q) ==
    IF q.n <= 0 THEN Frac(0, 1) ELSE IF q.n >= q.d THEN Frac(1, 1) ELSE q

\* the opts.frameSkip values a constructor call passes, in half units;
\* << >> is an absent option
FloorHalves(h) == h \div 2
DinoEnv_new(frameSkipOpt) ==
    [ frameSkip |-> Max(1, IF frameSkipOpt = << >> THEN 2
                           ELSE FloorHalves(frameSkipOpt[1])),
      lastScore |-> 0,
      terminated |-> FALSE ]

\* the loops of step and buildObservationFromPhysics stop at the first
\* obstacle with ob.x + ob.width > dinoX; 0 when there is none
RECURSIVE FirstAheadFrom(_, _)
FirstAheadFrom(obs, i) ==
    IF i > Len(obs) THEN 0
    ELSE IF obs[i].x + XU(obs[i].width) > XU(dinoX) THEN i
    ELSE FirstAheadFrom(obs, i + 1)
FirstAhead(p) == FirstAheadFrom(p.obstacles, 1)

\* buildObservationFromPhysics(p).  Math.max(1e-6, p.speed) is p.speed, the
\* speed being at least baseSpeed.  The Float32Array keeps each component
\* rounded to single precision; the model keeps the exact value.
buildObservationFromPhysics(p) ==
    LET i == FirstAhead(p)
        distPx == IF i = 0 THEN 0 ELSE Max(0, p.obstacles[i].x - XU(dinoX))
    IN  << Frac(p.dinoY, YU(groundY)),
           Frac(p.speed, SpeedU(baseSpeed + 8)),
           IF i = 0 THEN Frac(1, 1) ELSE Clamp01(Frac(distPx, XU(worldWidth))),
           IF i = 0 THEN Frac(1, 1) ELSE Clamp01(Frac(distPx, 2 * p.speed * 60)),
           IF i = 0 THEN Frac(0, 1) ELSE Clamp01(Frac(p.obstacles[i].width, 60)),
           IF i = 0 THEN Frac(0, 1) ELSE Clamp01(Frac(p.obstacles[i].height, 60)),
           IF p.dinoY >= YU(groundY) THEN Frac(1, 1) ELSE Frac(0, 1) >>

\* nearAhead, part_007 lines 63-70
NearAhead(p) ==
    LET i == FirstAhead(p)
    IN  /\ i # 0
        /\ LET distNorm == Clamp01(Frac(p.obstacles[i].x - XU(dinoX), XU(worldWidth)))
           IN  distNorm.n * jumpProximityThresholdInv < distNorm.d

\* a jump input held over every repetition
JumpInput_held(action, k) == action = ActionJump

\* jump: action === Action.Jump && k === 0, line 72
JumpInput(action, k) == action = ActionJump /\ k = 0

\* the frame-skip loop, lines 71-77: physics.step for k, k+1, ... until one
\* reports done or k = frameSkip.  A Math.random() draw is consumed only by a
\* spawning call and two spawns are at least 60 frames apart, so for
\* frameSkip <= 60 one draw d per env step is every draw the loop can use.
\* History, not in the source: n, the number of calls made, jumps, the
\* indices k of the calls that were passed jump = true, and dones, the
\* indices of the calls that reported done.
RECURSIVE Repeat(_, _, _, _, _)
Repeat(p, k, frameSkip, action, d) ==
    IF k >= frameSkip
    THEN [ p |-> p, done |-> FALSE, n |-> k, jumps |-> {}, dones |-> {} ]
    ELSE Let(DinoPhysics_step(p, JumpInput(action, k), Frames(1), d),
             LAMBDA r :
                 IF r.done
                 THEN [ p |-> r.p, done |-> TRUE, n |-> k + 1,
                        jumps |-> IF JumpInput(action, k) THEN { k } ELSE {},
                        dones |-> { k } ]
                 ELSE Let(Repeat(r.p, k + 1, frameSkip, action, d),
                          LAMBDA rest :
                              IF JumpInput(action, k)
                              THEN [ rest EXCEPT !.jumps = @ \cup { k } ]
                              ELSE rest))

\* a reward that adds the penalty to the shaped sum instead of overriding it
FinalReward_added(shaped, done) == IF done THEN shaped + terminalReward ELSE shaped

\* if (done) reward = -1.0
FinalReward(shaped, done) == IF done THEN terminalReward ELSE shaped

\* a step that never marks the episode terminated
MarkTerminated_never(e, done) == e

\* if (done) this.terminated = true
MarkTerminated(e, done) == IF done THEN [ e EXCEPT !.terminated = TRUE ] ELSE e

\* a shaped reward without the term for cleared obstacles
ShapedReward_noClear(e, action, nearAhead, deltaScore, clearedDelta) ==
    surviveReward * e.frameSkip + progressScale * deltaScore
    + (IF action = ActionJump
       THEN (IF nearAhead THEN jumpProximityBonus ELSE jumpFarPenalty)
       ELSE 0)

\* lines 81-94: the reward before the terminal override
ShapedReward(e, action, nearAhead, deltaScore, clearedDelta) ==
    surviveReward * e.frameSkip + progressScale * deltaScore
    + clearReward * clearedDelta
    + (IF action = ActionJump
       THEN (IF nearAhead THEN jumpProximityBonus ELSE jumpFarPenalty)
       ELSE 0)

\* step(action): the instance and its physics after the call, and the
\* StepOut.  History, not in the source: physicsSteps, the number of
\* physics.step calls made, jumpCalls and doneCalls (the jumps and dones of
\* Repeat), the action given, and shaped, the reward before the override.
DinoEnv_step(e, p, action, d) ==
    IF e.terminated
    THEN [ env |-> e, physics |-> p,
           out |-> [ kind |-> "step", obs |-> buildObservationFromPhysics(p),
                     reward |-> 0, done |-> TRUE, score |-> p.scoreInt,
                     physicsSteps |-> 0, shaped |-> 0, action |-> action,
                     jumpCalls |-> {}, doneCalls |-> {} ] ]
    ELSE Let(Repeat(p, 0, e.frameSkip, action, d), LAMBDA r :
         LET preCleared == p.obstaclesCleared
             nearAhead == NearAhead(p)
             score == r.p.scoreInt
             deltaScore == Max(0, score - e.lastScore)
             clearedDelta == Max(0, r.p.obstaclesCleared - preCleared)
             shaped == ShapedReward(e, action, nearAhead, deltaScore, clearedDelta)
         IN  [ env |-> MarkTerminated([ e EXCEPT !.lastScore = score ], r.done),
               physics |-> r.p,
               out |-> [ kind |-> "step",
                         obs |-> buildObservationFromPhysics(r.p),
                         reward |-> FinalReward(shaped, r.done),
                         done |-> r.done, score |-> score,
                         physicsSteps |-> r.n, shaped |-> shaped,
                         action |-> action,
                         jumpCalls |-> r.jumps, doneCalls |-> r.dones ] ])

\* reset(): physics.reset(), bookkeeping cleared, the first observation
DinoEnv_reset(e, p) ==
    LET q == DinoPhysics_reset(p)
    IN  [ env |-> [ e EXCEPT !.lastScore = 0, !.terminated = FALSE ],
          physics |-> q,
          out |-> [ kind |-> "reset", obs |-> buildObservationFromPhysics(q),
                    reward |-> 0, done |-> FALSE, score |-> 0,
                    physicsSteps |-> 0, shaped |-> 0, action |-> ActionIdle,
                    jumpCalls |-> {}, doneCalls |-> {} ] ]

-----------------------------------------------------------------------------
(* SpecEnv: a DinoEnv instance driven by arbitrary callers                 *)

MaxEnvSteps == 22

\* opts.frameSkip: absent (2), 0 (raised to 1), 8.5 (floored to 8)
FrameSkipOpts == { << >>, << 0 >>, << 17 >> }
Actions == { ActionIdle, ActionJump, ActionDuck }

NoOut == [ kind |-> "none", obs |-> << >>, reward |-> 0, done |-> FALSE,
           score |-> 0, physicsSteps |-> 0, shaped |-> 0,
           action |-> ActionIdle, jumpCalls |-> {}, doneCalls |-> {} ]

InitEnv ==
    /\ env \in { DinoEnv_new(o) : o \in FrameSkipOpts }
    /\ physics = DinoPhysics_new(FALSE)
    /\ out = NoOut
    /\ calls = 0
    /\ result = Idle /\ replay = Idle /\ added = Idle /\ worker = Idle
    /\ twin = Idle /\ agent = Idle /\ sampled = Idle
    /\ parked = Idle

EnvReset ==
    /\ \E r \in { DinoEnv_reset(env, physics) } :
           env' = r.env /\ physics' = r.physics /\ out' = r.out
    /\ calls' = 0
    /\ UNCHANGED <<result, replay, added, worker, twin, agent, sampled>>
    /\ UNCHANGED parked

EnvStep ==
    /\ calls < MaxEnvSteps
    /\ \E action \in Actions :
       \E d \in DrawsFor(physics, Frames(env.frameSkip)) :
       \E r \in { DinoEnv_step(env, physics, action, d) } :
           env' = r.env /\ physics' = r.physics /\ out' = r.out
    /\ calls' = calls + 1
    /\ UNCHANGED <<result, replay, added, worker, twin, agent, sampled>>
    /\ UNCHANGED parked

NextEnv == EnvReset \/ EnvStep

SpecEnv == InitEnv /\ [][NextEnv]_vars

\* C3, over one step call made when the previous call was a step that
\* returned done = true: it returns done = true again with the observation
\* of the physics state as it was, makes no physics.step call, and leaves
\* the physics state and lastScore unchanged.
C3_Step ==
    (out.kind = "step" /\ out.done /\ calls' = calls + 1) =>
        /\ out'.done
        /\ out'.obs = buildObservationFromPhysics(physics)
        /\ out'.physicsSteps = 0
        /\ physics' = physics
        /\ env'.lastScore = env.lastScore

\* C3: after a terminal result the adapter never steps the engine again
\* until reset().
C3_NoStepAfterDone == [][C3_Step]_vars

\* C3 witness: a step was answered by the short-circuit after a terminal
\* step.
C3_ShortCircuited ==
    /\ out.kind = "step"
    /\ out.done
    /\ out.physicsSteps = 0
    /\ calls >= 2

\* C6: a step in which a physics sub-step reported done returns reward
\* exactly -1.0, whatever the shaped sum of that step was.
C6_TerminalReward ==
    (out.kind = "step" /\ out.done /\ out.physicsSteps > 0) =>
        out.reward = -10000

\* C6 witness: a terminating step whose shaped sum was positive and included
\* a jump term (near or far).
C6_TerminatedWithShaped ==
    /\ out.kind = "step"
    /\ out.done
    /\ out.physicsSteps > 0
    /\ out.shaped > 0
    /\ out.shaped # surviveReward * env.frameSkip

\* C13, over one step(action) call on an instance that is not terminated,
\* with frame skip K: it makes between 1 and K physics.step calls, K of
\* them when none reports done, and otherwise the call that reports done is
\* the last; jump = true is passed to the first call when action = Jump and
\* to no other call.
C13_Step ==
    (calls' = calls + 1 /\ ~env.terminated) =>
        LET o == out'
            K == env.frameSkip
        IN  /\ o.physicsSteps \in 1..K
            /\ ~o.done => o.physicsSteps = K /\ o.doneCalls = {}
            /\ o.done => o.doneCalls = { o.physicsSteps - 1 }
            /\ o.jumpCalls = (IF o.action = ActionJump THEN { 0 } ELSE {})

C13_FrameSkip == [][C13_Step]_vars

\* C13 witness: a Jump step with K = 8 stopped early, at a call after the
\* first, because that call reported done.
C13_StoppedEarly ==
    /\ out.kind = "step"
    /\ env.frameSkip = 8
    /\ out.action = ActionJump
    /\ out.done
    /\ out.physicsSteps \in 2..7

\* the obstacles of q with the passed flag set that p does not hold with it
NewlyPassedIn(p, q) ==
    { i \in 1..Len(q.obstacles) :
        /\ q.obstacles[i].passed
        /\ ~\E j \in 1..Len(p.obstacles) :
               /\ p.obstacles[j].id = q.obstacles[i].id
               /\ p.obstacles[j].passed }

\* C29, over one step(action) call on an instance that is not terminated
\* which returns done = false, with frame skip K: reward = surviveReward * K
\* + progressScale * (growth of the integer score over the call)
\* + clearReward * (obstacles marked passed during the call) + J, with
\* J = jumpProximityBonus for a Jump with the proximity flag set before the
\* call, jumpFarPenalty for a Jump without it, and 0 for another action.
C29_Step ==
    (calls' = calls + 1 /\ ~env.terminated /\ ~out'.done) =>
        out'.reward =
            surviveReward * env.frameSkip
            + progressScale * (physics'.scoreInt - physics.scoreInt)
            + clearReward * Cardinality(NewlyPassedIn(physics, physics'))
            + (IF out'.action # ActionJump THEN 0
               ELSE IF NearAhead(physics) THEN jumpProximityBonus
               ELSE jumpFarPenalty)

C29_RewardFormula == [][C29_Step]_vars

\* C29 witness: a Jump step that did not end the episode was made with the
\* flag set, cleared an obstacle and raised the score.
C29_AllTerms ==
    /\ out.kind = "step"
    /\ ~out.done
    /\ out.action = ActionJump
    /\ out.reward > surviveReward * env.frameSkip + clearReward
                        + jumpProximityBonus

-----------------------------------------------------------------------------
(* SpecEnvRun: one long game at frame skip 1, a low cactus of width 16     *)
(* every 60 frames, played until the speed has reached its maximum         *)

MaxRunSteps == 840

\* 20 + floor(random * 30) = 20, 10 + floor(random * 20) = 16,
\* 60 + random * 40 = 60
RunDraw == [ height |-> 20, width |-> 16, cooldown |-> Frames(60) ]

InitEnvRun ==
    /\ env = DinoEnv_new(<< 2 >>)
    /\ physics = DinoPhysics_new(FALSE)
    /\ out = NoOut
    /\ calls = 0
    /\ result = Idle /\ replay = Idle /\ added = Idle /\ worker = Idle
    /\ twin = Idle /\ agent = Idle /\ sampled = Idle
    /\ parked = Idle

EnvRunReset ==
    /\ \E r \in { DinoEnv_reset(env, physics) } :
           env' = r.env /\ physics' = r.physics /\ out' = r.out
    /\ calls' = 0
    /\ UNCHANGED <<result, replay, added, worker, twin, agent, sampled>>
    /\ UNCHANGED parked

EnvRunStep ==
    /\ calls < MaxRunSteps
    /\ ~env.terminated
    /\ \E action \in { ActionIdle, ActionJump } :
       \E r \in { DinoEnv_step(env, physics, action, RunDraw) } :
           env' = r.env /\ physics' = r.physics /\ out' = r.out
    /\ calls' = calls + 1
    /\ UNCHANGED <<result, replay, added, worker, twin, agent, sampled>>
    /\ UNCHANGED parked

NextEnvRun == EnvRunReset \/ EnvRunStep

SpecEnvRun == InitEnvRun /\ [][NextEnvRun]_vars

\* the first obstacle in list order whose passed flag is false; 0 if none
RECURSIVE FirstUnpassedFrom(_, _)
FirstUnpassedFrom(obs, i) ==
    IF i > Len(obs) THEN 0
    ELSE IF ~obs[i].passed THEN i
    ELSE FirstUnpassedFrom(obs, i + 1)

\* dist, tti, width and height of obstacle i of p, as the observation
\* normalizes them; of no obstacle when i = 0
ObstacleTerms(p, i) ==
    IF i = 0 THEN << Frac(1, 1), Frac(1, 1), Frac(0, 1), Frac(0, 1) >>
    ELSE LET distPx == Max(0, p.obstacles[i].x - XU(dinoX))
         IN  << Clamp01(Frac(distPx, XU(worldWidth))),
                Clamp01(Frac(distPx, 2 * p.speed * 60)),
                Clamp01(Frac(p.obstacles[i].width, 60)),
                Clamp01(Frac(p.obstacles[i].height, 60)) >>

\* C28: the four obstacle terms of the observation returned last are those
\* of the first obstacle of the list whose passed flag is false (1, 1, 0, 0
\* when there is none), and the proximity flag that a step would record now
\* is taken from that same obstacle (false when there is none).
C28_FirstUnpassed ==
    out.kind \in { "reset", "step" } =>
        LET i == FirstUnpassedFrom(physics.obstacles, 1)
            terms == ObstacleTerms(physics, i)
        IN  /\ SubSeq(out.obs, 3, 6) = terms
            /\ NearAhead(physics) =
                  (i # 0 /\ terms[1].n * jumpProximityThresholdInv < terms[1].d)

\* C34, over one call: a step sets the speed to
\* baseSpeed + min(8, score / 150) for the integer score held at its start,
\* which is not below the speed before; reset() sets it to baseSpeed.
C34_Step ==
    /\ calls' = calls + 1 =>
           /\ physics'.speed = 150 * baseSpeed + Min(150 * 8, physics.scoreInt)
           /\ physics'.speed >= physics.speed
    /\ calls' = 0 => physics'.speed = 150 * baseSpeed

\* C34, in every state: baseSpeed <= speed <= baseSpeed + 8.
C34_Range ==
    /\ physics.speed >= 150 * baseSpeed
    /\ physics.speed <= 150 * (baseSpeed + 8)

C34_SpeedFollowsScore == [][C34_Step]_vars /\ []C34_Range

\* C34 witness: the score is past 8 * 150 and the speed is baseSpeed + 8.
C34_Capped ==
    /\ calls > 0
    /\ physics.scoreInt > 150 * 8
    /\ physics.speed = 150 * (baseSpeed + 8)

-----------------------------------------------------------------------------
(* rl.worker.ts, lines 137-343                                             *)
(*                                                                         *)
(* Scheduling.  The worker is one JavaScript event loop.  A message        *)
(* handler is a task; the continuation of an await is a microtask, and the *)
(* microtask queue is drained before the next task starts.  DQN and        *)
(* RandomAgent return plain values from selectAction and train, so         *)
(* `await agent.selectAction(obs)` and `await agent.train()` resume in     *)
(* microtasks: no message handler runs between the iterations of trainLoop *)
(* or evalLoop.  Only `await agent.save()` (IndexedDB) waits for a later   *)
(* task, so a handler can run while a loop is suspended there, or when no  *)
(* loop is running.  The model splits a loop into one action per iteration *)
(* and lets a handler fire only at those points (LoopFree).                *)
(*                                                                         *)
(* In the actions, \E r \in { e } : ... names the value of e.              *)
(*                                                                         *)
(* The client posts at most one start or eval command, and stop commands   *)
(* at any time; a command is handled at the first LoopFree point after it  *)
(* was posted, so the handling is what the model records.                  *)
(*                                                                         *)
(* Not modelled: totalReward (the `return` of a progress message), the     *)
(* throttled frame messages, and the inside of the agent (observe, train,  *)
(* the network behind selectAction): none of them is read by the control   *)
(* flow of the loops.                                                      *)

\* an optional field of a message: << >> absent, << v >> present
Opt(o, default) == IF o = << >> THEN default ELSE o[1]

\* function toAction(idx)
toAction(idx) == IF idx = 1 THEN ActionJump ELSE ActionIdle

\* a schedule without the cap Math.min(1, ep / epsDecay)
Anneal_uncapped(epsStart, epsEnd, ep, epsDecay) ==
    Frac(epsStart * (epsDecay - ep) + epsEnd * ep, 100 * epsDecay)

\* lines 279-281, epsilons in hundredths: frac = Math.min(1, ep / epsDecay),
\* epsilon = epsStart * (1 - frac) + epsEnd * frac
Anneal(epsStart, epsEnd, ep, epsDecay) ==
    LET m == Min(epsDecay, ep)
    IN  Frac(epsStart * (epsDecay - m) + epsEnd * m, 100 * epsDecay)

\* an episode loop that runs one episode too many
EpisodeLoopTest_oneMore(run, shouldStop) ==
    run.ep <= run.episodes + 1 /\ ~shouldStop

\* an episode loop that does not look at the stop flag
EpisodeLoopTest_ignoresStop(run, shouldStop) == run.ep <= run.episodes

\* ep <= episodes && !shouldStop, line 203
EpisodeLoopTest(run, shouldStop) == run.ep <= run.episodes /\ ~shouldStop

\* a step loop that runs one iteration too many
StepLoopTest_offByOne(run) == run.steps <= run.maxSteps

\* steps < maxSteps, lines 208 and 309
StepLoopTest(run) == run.steps < run.maxSteps

NoMsg == [ type |-> "none" ]

\* History: delegated, the last training step called agent.selectAction;
\* greedy, it did and the index it got maximizes the output of the online
\* network.
NoChoice == [ delegated |-> FALSE, greedy |-> FALSE ]

NoRun == [ pc |-> "none", kind |-> "none", ep |-> 0, steps |-> 0,
           episodes |-> 0, maxSteps |-> 0,
           epsStart |-> 0, epsEnd |-> 0, epsDecay |-> 1,
           epsilon |-> Frac(0, 1), bestScore |-> 0, saveThreshold |-> Infinity,
           hasAutoSaved |-> FALSE, done |-> FALSE,
           obs |-> << >>,           \* the local obs
           maxCleared |-> 0 ]       \* history: see TrainStep

\* History: the transition handed to agent.observe last
NoTransition == [ obs |-> << >>, nextObs |-> << >>, done |-> FALSE ]

\* the module state after the script has loaded; the counters are history
Worker_new ==
    [ shouldStop |-> FALSE,
      currentAgent |-> FALSE,       \* currentAgent # null
      run |-> NoRun,
      posted |-> NoMsg,             \* the message the last action posted
      stops |-> 0,                  \* stop commands handled
      queued |-> 0,                 \* stop commands waiting in the task queue
      stopped |-> FALSE,            \* a stop was handled after the start
      stepped |-> FALSE,            \* the run has made an env.step call
      saveCalls |-> 0,              \* agent.save() invocations
      autosaved |-> 0,              \* autosaved messages posted
      progress |-> 0,               \* progress messages posted
      progressAfterStop |-> 0,      \* ... of them with the stop flag set
      evals |-> 0,                  \* eval messages posted
      dones |-> 0,                  \* done messages posted
      stored |-> 0,                 \* agent.observe calls of this episode
      last |-> NoTransition,        \* the transition of the last of them
      choice |-> NoChoice ]         \* how the last training step chose

\* (Math.random() * actionSize) | 0, the argmax of selectAction, and
\* RandomAgent.selectAction all range over the two action indices
ActionIdxs == { 0, 1 }

\* Math.random() < epsilon can hold: Math.random() is in [0, 1)
CanExplore(epsilon) == epsilon.n > 0

\* Math.random() < epsilon can fail
CanExploit(epsilon) == epsilon.n < epsilon.d

\* DQN.selectAction, part_006 lines 135-143: the indices it can return when
\* argmax is the index that maximizes the output of the online network
DQN_selectAction(epsilon, argmax) ==
    (IF CanExplore(epsilon) THEN ActionIdxs ELSE {})
        \cup (IF CanExploit(epsilon) THEN { argmax } ELSE {})

\* lines 209-213 of trainLoop: the worker's own draw, and below it either a
\* random index or the call of agent.selectAction; agent.epsilon is the
\* epsilon of both tests
EpsilonGreedy(epsilon, argmax) ==
    (IF CanExplore(epsilon)
     THEN { [ delegated |-> FALSE, actionIdx |-> a ] : a \in ActionIdxs }
     ELSE {})
        \cup (IF CanExploit(epsilon)
              THEN { [ delegated |-> TRUE, actionIdx |-> a ] :
                         a \in DQN_selectAction(epsilon, argmax) }
              ELSE {})

\* no loop holds the thread: none started, one suspended in save(), or ended
LoopFree == worker.run.pc \in { "none", "saving", "finished" }

\* trainLoop, lines 171-201: the part before the episode loop
trainLoop_begin(opts) ==
    LET episodes == Opt(opts.episodes, 50)
        epsStart == Opt(opts.epsilonStart, 100)
    IN  [ pc |-> "episode", kind |-> "train", ep |-> 1, steps |-> 0,
          episodes |-> episodes,
          maxSteps |-> Opt(opts.maxSteps, 2000),
          epsStart |-> epsStart,
          epsEnd |-> Opt(opts.epsilonEnd, 5),
          epsDecay |-> Max(1, Opt(opts.epsilonDecayEpisodes, episodes)),
          epsilon |-> Frac(epsStart, 100),
          bestScore |-> 0,
          saveThreshold |-> Opt(opts.highScoreSaveThreshold, Infinity),
          hasAutoSaved |-> FALSE, done |-> FALSE,
          obs |-> << >>, maxCleared |-> 0 ]

\* evalLoop, lines 298-304
evalLoop_begin(opts) ==
    [ NoRun EXCEPT !.pc = "episode", !.kind = "eval", !.ep = 1,
                   !.episodes = Opt(opts.episodes, 5),
                   !.maxSteps = Opt(opts.maxSteps, 4000),
                   !.epsilon = Frac(0, 1) ]

\* a step loop without `if (done) break`
NextIteration_noBreak(run, done) ==
    [ run EXCEPT !.pc = "step", !.steps = @ + 1, !.done = FALSE ]

\* a loop that keeps the observation it started the episode with
CarryObs_stale(obs, nextObs) == obs

\* obs = nextObs, lines 228 and 312
CarryObs(obs, nextObs) == nextObs

\* lines 272-273 and the steps++ of the for statement
NextIteration(run, done) ==
    IF done THEN [ run EXCEPT !.pc = "episodeEnd", !.done = FALSE ]
    ELSE [ run EXCEPT !.pc = "step", !.steps = @ + 1, !.done = FALSE ]

-----------------------------------------------------------------------------
(* Inputs of the worker                                                    *)

MaxTrainSteps == 26
MaxEpisodes == 2
MaxEvalSteps == 72
MaxStops == 1

Absent == << >>

StartMsg(episodes, maxSteps, frameSkip, epsilonStart, epsilonEnd, decay, threshold) ==
    [ type |-> "start", episodes |-> episodes, maxSteps |-> maxSteps,
      frameSkip |-> frameSkip, epsilonStart |-> epsilonStart,
      epsilonEnd |-> epsilonEnd, epsilonDecayEpisodes |-> decay,
      highScoreSaveThreshold |-> threshold ]

\* long runs with frameSkip 8.5 (floored to 8) and epsilon 1.0 throughout,
\* with and without a threshold; one-step episodes over the epsilon options
\* (hundredths); an episode of no step
StartMsgs ==
    { StartMsg(<< MaxEpisodes >>, << MaxTrainSteps >>, << 17 >>,
               Absent, << 100 >>, Absent, th) :
        th \in { Absent, << 1 >> } }
    \cup
    { StartMsg(<< MaxEpisodes + 1 >>, << 1 >>, Absent, es, ee, d, Absent) :
        es \in { Absent, << 50 >> },
        ee \in { Absent, << 10 >>, << 100 >> },
        d \in { Absent, << 0 >>, << 2 >> } }
    \cup
    { StartMsg(<< 1 >>, << 0 >>, Absent, Absent, Absent, Absent, Absent) }

EvalMsgs ==
    { [ type |-> "eval", episodes |-> << e >>, maxSteps |-> << m >> ] :
        e \in 1..MaxEpisodes, m \in { 1, MaxEvalSteps } }

\* the spawn draws of a run: low obstacles at the shortest interval, of
\* either extreme width
WorkerDraws == { d \in Draws : d.height = 20 /\ d.cooldown = Frames(60) }
WorkerDrawsFor(p, frames) ==
    IF DrawsFor(p, frames) = { NoDraw } THEN { NoDraw } ELSE WorkerDraws

-----------------------------------------------------------------------------
(* The handlers and the loops                                              *)

InitWorker ==
    /\ worker = Worker_new
    /\ physics = DinoPhysics_new(FALSE)
    /\ env = DinoEnv_new(Absent)
    /\ calls = 0
    /\ out = Idle /\ result = Idle /\ replay = Idle /\ added = Idle
    /\ twin = Idle /\ agent = Idle /\ sampled = Idle
    /\ parked = Idle

\* self.onmessage, msg.type === "start": trainLoop(msg) up to its loop
HandleStart ==
    /\ LoopFree
    /\ worker.run.pc = "none"
    /\ \E msg \in StartMsgs :
         /\ env' = DinoEnv_new(<< Opt(msg.frameSkip, 4) >>)
         /\ worker' = [ worker EXCEPT !.run = trainLoop_begin(msg),
                                      !.shouldStop = FALSE,
                                      !.currentAgent = TRUE,
                                      !.stopped = FALSE,
                                      !.posted = NoMsg ]
    /\ physics' = DinoPhysics_new(FALSE)
    /\ calls' = 0
    /\ UNCHANGED <<out, result, replay, added, twin, agent, sampled>>
    /\ UNCHANGED parked

\* self.onmessage, msg.type === "stop"
HandleStop ==
    /\ LoopFree
    /\ worker.queued > 0 \/ worker.stops < MaxStops
    /\ worker' = [ worker EXCEPT !.shouldStop = TRUE,
                                 !.stops = @ + 1,
                                 !.queued = Max(0, @ - 1),
                                 !.stopped = worker.run.pc # "none",
                                 !.posted = NoMsg ]
    /\ UNCHANGED <<physics, env, calls, out, result, replay, added, twin, agent, sampled>>
    /\ UNCHANGED parked

\* self.onmessage, msg.type === "eval": evalLoop(msg) up to its loop
HandleEval ==
    /\ LoopFree
    /\ worker.run.pc = "none"
    /\ \E msg \in EvalMsgs :
         worker' = [ worker EXCEPT !.run = evalLoop_begin(msg),
                                   !.posted = NoMsg ]
    /\ env' = DinoEnv_new(<< 4 >>)
    /\ physics' = DinoPhysics_new(FALSE)
    /\ calls' = 0
    /\ UNCHANGED <<out, result, replay, added, twin, agent, sampled>>
    /\ UNCHANGED parked

\* the head of an episode loop: the test, then env.reset(), or the done
\* message after the loop (lines 203-206 and 294; 306-308 and 317)
EpisodeHead(continue) ==
    IF continue
    THEN \E r \in { DinoEnv_reset(env, physics) } :
             /\ env' = r.env
             /\ physics' = r.physics
             /\ calls' = 0
             /\ worker' = [ worker EXCEPT !.run.pc = "step", !.run.steps = 0,
                                          !.run.obs = r.out.obs,
                                          !.stored = 0,
                                          !.last = NoTransition,
                                          !.posted = NoMsg ]
    ELSE /\ worker' = [ worker EXCEPT !.run.pc = "finished",
                                      !.posted = [ type |-> "done" ],
                                      !.dones = @ + 1 ]
         /\ UNCHANGED <<env, physics, calls>>

TrainEpisodeTest ==
    /\ worker.run.kind = "train"
    /\ worker.run.pc = "episode"
    /\ EpisodeHead(EpisodeLoopTest(worker.run, worker.shouldStop))
    /\ UNCHANGED <<out, result, replay, added, twin, agent, sampled>>
    /\ UNCHANGED parked

EvalEpisodeTest ==
    /\ worker.run.kind = "eval"
    /\ worker.run.pc = "episode"
    /\ EpisodeHead(worker.run.ep <= worker.run.episodes)
    /\ UNCHANGED <<out, result, replay, added, twin, agent, sampled>>
    /\ UNCHANGED parked

\* a tracker that holds the count of the last step
TrackBest_last(run, cleared, done) ==
    NextIteration([ run EXCEPT !.bestScore = cleared ], done)

\* lines 230-246 up to the call of save(): the run after the best-score
\* update; pc = "saving" when save() has been called and is awaited
TrackBest(run, cleared, done) ==
    IF cleared > run.bestScore
    THEN IF ~run.hasAutoSaved /\ cleared >= run.saveThreshold
         THEN [ run EXCEPT !.bestScore = cleared, !.pc = "saving", !.done = done ]
         ELSE NextIteration([ run EXCEPT !.bestScore = cleared ], done)
    ELSE NextIteration(run, done)

\* one iteration of the step loop of trainLoop, lines 208-273, up to its
\* end or to the await of save().  History: run.maxCleared, the largest
\* obstaclesCleared read after a step of the run.
TrainStep ==
    /\ worker.run.kind = "train"
    /\ worker.run.pc = "step"
    /\ IF StepLoopTest(worker.run)
       THEN \E argmax \in ActionIdxs :
            \E c \in EpsilonGreedy(worker.run.epsilon, argmax) :
            \E d \in WorkerDrawsFor(physics, Frames(env.frameSkip)) :
            \E r \in { DinoEnv_step(env, physics, toAction(c.actionIdx), d) } :
            \E run \in { TrackBest(worker.run, r.physics.obstaclesCleared,
                                   r.out.done) } :
                  /\ env' = r.env
                  /\ physics' = r.physics
                  /\ calls' = calls + 1
                  /\ worker' = [ worker EXCEPT
                        !.run = [ run EXCEPT
                            !.obs = CarryObs(worker.run.obs, r.out.obs),
                            !.maxCleared =
                                Max(@, r.physics.obstaclesCleared) ],
                        !.stored = @ + 1,
                        !.last = [ obs |-> worker.run.obs,
                                   nextObs |-> r.out.obs,
                                   done |-> r.out.done ],
                        !.posted = NoMsg,
                        !.stepped = TRUE,
                        !.choice = [ delegated |-> c.delegated,
                                     greedy |-> c.delegated /\ c.actionIdx = argmax ],
                        !.saveCalls = IF run.pc = "saving" THEN @ + 1 ELSE @ ]
       ELSE /\ worker' = [ worker EXCEPT !.run.pc = "episodeEnd",
                                         !.posted = NoMsg ]
            /\ UNCHANGED <<env, physics, calls>>
    /\ UNCHANGED <<out, result, replay, added, twin, agent, sampled>>
    /\ UNCHANGED parked

\* save() resolved: lines 242-243, then the rest of the iteration
SaveResolve ==
    /\ worker.run.pc = "saving"
    /\ worker' = [ worker EXCEPT
          !.run = NextIteration([ worker.run EXCEPT !.hasAutoSaved = TRUE ],
                                worker.run.done),
          !.posted = [ type |-> "autosaved", bestScore |-> worker.run.bestScore ],
          !.autosaved = @ + 1 ]
    /\ UNCHANGED <<physics, env, calls, out, result, replay, added, twin, agent, sampled>>
    /\ UNCHANGED parked

\* a rejection of save() that leaves trainLoop
AfterReject_thrown(run) == [ run EXCEPT !.pc = "thrown" ]

\* catch {}, line 244: the rejection is swallowed and the iteration goes on
AfterReject(run) == NextIteration(run, run.done)

\* save() rejected, then the rest of the iteration
SaveReject ==
    /\ worker.run.pc = "saving"
    /\ worker' = [ worker EXCEPT
          !.run = AfterReject(worker.run),
          !.posted = NoMsg ]
    /\ UNCHANGED <<physics, env, calls, out, result, replay, added, twin, agent, sampled>>
    /\ UNCHANGED parked

\* lines 275-292: the annealing and the progress message, then ep++
TrainEpisodeEnd ==
    /\ worker.run.kind = "train"
    /\ worker.run.pc = "episodeEnd"
    /\ LET run == worker.run
           eps == Anneal(run.epsStart, run.epsEnd, run.ep, run.epsDecay)
       IN  worker' = [ worker EXCEPT
              !.run = [ run EXCEPT !.epsilon = eps, !.ep = @ + 1, !.pc = "episode" ],
              !.posted = [ type |-> "progress", episode |-> run.ep,
                           steps |-> run.steps, epsilon |-> eps,
                           bestScore |-> run.bestScore,
                           episodeCleared |-> physics.obstaclesCleared ],
              !.progress = @ + 1,
              !.progressAfterStop = IF worker.stopped THEN @ + 1 ELSE @ ]
    /\ UNCHANGED <<physics, env, calls, out, result, replay, added, twin, agent, sampled>>
    /\ UNCHANGED parked

\* one iteration of the step loop of evalLoop, lines 309-314
EvalStep ==
    /\ worker.run.kind = "eval"
    /\ worker.run.pc = "step"
    /\ IF StepLoopTest(worker.run)
       THEN \E actionIdx \in ActionIdxs :
            \E d \in WorkerDrawsFor(physics, Frames(env.frameSkip)) :
            \E r \in { DinoEnv_step(env, physics, toAction(actionIdx), d) } :
                  /\ env' = r.env
                  /\ physics' = r.physics
                  /\ calls' = calls + 1
                  /\ worker' = [ worker EXCEPT
                        !.run = [ NextIteration(worker.run, r.out.done) EXCEPT
                            !.obs = CarryObs(worker.run.obs, r.out.obs) ],
                        !.stepped = TRUE,
                        !.posted = NoMsg ]
       ELSE /\ worker' = [ worker EXCEPT !.run.pc = "episodeEnd",
                                         !.posted = NoMsg ]
            /\ UNCHANGED <<env, physics, calls>>
    /\ UNCHANGED <<out, result, replay, added, twin, agent, sampled>>
    /\ UNCHANGED parked

\* line 315, then ep++
EvalEpisodeEnd ==
    /\ worker.run.kind = "eval"
    /\ worker.run.pc = "episodeEnd"
    /\ worker' = [ worker EXCEPT
          !.run.ep = @ + 1, !.run.pc = "episode",
          !.posted = [ type |-> "eval", episode |-> worker.run.ep,
                       steps |-> worker.run.steps ],
          !.evals = @ + 1 ]
    /\ UNCHANGED <<physics, env, calls, out, result, replay, added, twin, agent, sampled>>
    /\ UNCHANGED parked

\* the page posts stop while evalLoop holds the thread: the message waits
\* in the task queue until the loop has ended
SendStop ==
    /\ worker.run.kind = "eval"
    /\ ~LoopFree
    /\ worker.stops + worker.queued < MaxStops
    /\ worker' = [ worker EXCEPT !.queued = @ + 1 ]
    /\ UNCHANGED <<physics, env, calls, out, result, replay, added, twin, agent, sampled>>
    /\ UNCHANGED parked

TrainLoopStep ==
    TrainEpisodeTest \/ TrainStep \/ SaveResolve \/ SaveReject \/ TrainEpisodeEnd

EvalLoopStep == EvalEpisodeTest \/ EvalStep \/ EvalEpisodeEnd

NextTrain == HandleStart \/ HandleStop \/ TrainLoopStep

NextEval == HandleEval \/ HandleStop \/ SendStop \/ EvalLoopStep

\* either command
NextWorker == NextTrain \/ NextEval

\* SpecRestart: a start command handled while a trainLoop awaits save().
\* onmessage calls trainLoop(msg) whatever is running, so a second loop
\* starts with locals of its own (env, agent, counters) and the module's
\* shouldStop.  It holds the thread until it awaits save() itself or has
\* returned; the first loop waits in parked with its locals until its save()
\* settles.
NoParked ==
    [ run |-> NoRun, env |-> DinoEnv_new(Absent),
      physics |-> DinoPhysics_new(FALSE), calls |-> 0, stopped |-> FALSE ]

\* the second start: one episode of one step
RestartMsgs ==
    { StartMsg(<< 1 >>, << 1 >>, Absent, Absent, Absent, Absent, Absent) }

InitRestart ==
    /\ worker = Worker_new
    /\ physics = DinoPhysics_new(FALSE)
    /\ env = DinoEnv_new(Absent)
    /\ calls = 0
    /\ out = Idle /\ result = Idle /\ replay = Idle /\ added = Idle
    /\ twin = Idle /\ agent = Idle /\ sampled = Idle
    /\ parked = NoParked

\* self.onmessage, msg.type === "start", while the first loop awaits save():
\* trainLoop(msg) up to its loop, line 194 included
HandleRestart ==
    /\ worker.run.kind = "train"
    /\ worker.run.pc = "saving"
    /\ parked.run.pc = "none"
    /\ \E msg \in RestartMsgs :
         /\ env' = DinoEnv_new(<< Opt(msg.frameSkip, 4) >>)
         /\ worker' = [ worker EXCEPT !.run = trainLoop_begin(msg),
                                      !.shouldStop = FALSE,
                                      !.currentAgent = TRUE,
                                      !.stopped = FALSE,
                                      !.posted = NoMsg ]
    /\ parked' = [ run |-> worker.run, env |-> env, physics |-> physics,
                   calls |-> calls, stopped |-> worker.stopped ]
    /\ physics' = DinoPhysics_new(FALSE)
    /\ calls' = 0
    /\ UNCHANGED <<out, result, replay, added, twin, agent, sampled>>

\* the save() of the parked loop is about to settle while the later loop is
\* suspended or has returned: the two loops change places
Resume ==
    /\ parked.run.pc = "saving"
    /\ worker.run.pc \in { "saving", "finished" }
    /\ parked' = [ run |-> worker.run, env |-> env, physics |-> physics,
                   calls |-> calls, stopped |-> worker.stopped ]
    /\ worker' = [ worker EXCEPT !.run = parked.run,
                                 !.stopped = parked.stopped,
                                 !.posted = NoMsg ]
    /\ env' = parked.env
    /\ physics' = parked.physics
    /\ calls' = parked.calls
    /\ UNCHANGED <<out, result, replay, added, twin, agent, sampled>>

\* a stop command, handled while no loop is parked
RestartStop == parked.run.pc = "none" /\ HandleStop

NextRestart ==
    HandleStart \/ RestartStop \/ HandleRestart \/ Resume \/ TrainLoopStep

SpecRestart == InitRestart /\ [][NextRestart]_vars

\* The event loop runs a ready continuation, and the save() promise settles.
SpecTrain == InitWorker /\ [][NextTrain]_vars /\ WF_vars(TrainLoopStep)

SpecEval == InitWorker /\ [][NextEval]_vars /\ WF_vars(EvalLoopStep)

SpecWorker == InitWorker /\ [][NextWorker]_vars

-----------------------------------------------------------------------------
(* Claims on the training run                                              *)

FiniteThreshold ==
    worker.run.kind = "train" /\ worker.run.saveThreshold < Infinity

\* C4: once a start command is handled, whenever the stop command that
\* follows it is handled, the run posts exactly one done message, and at most
\* one progress message is posted while the stop flag is set.
C4_Bounded ==
    worker.run.kind = "train" =>
        /\ worker.progressAfterStop <= 1
        /\ worker.dones = (IF worker.run.pc = "finished" THEN 1 ELSE 0)
        /\ worker.progress <= worker.run.episodes

C4_StopThenDone ==
    /\ []C4_Bounded
    /\ (worker.run.kind = "train") ~> (worker.run.pc = "finished")

\* C4 witness: the stop was handled during the first episode, the episode
\* posted its progress message with the flag set, and the run posted done
\* without running the remaining episodes.
C4_StoppedEarly ==
    /\ worker.run.kind = "train"
    /\ worker.stopped
    /\ worker.posted.type = "done"
    /\ worker.progressAfterStop = 1
    /\ worker.progress = 1
    /\ worker.run.episodes > 1

\* C12: every start command is followed, eventually, by the done message of
\* its run, and by one only, whether the episodes run out or a stop is
\* handled, and whether save() resolves or rejects; once done is posted the
\* run posts no progress and no autosaved message and makes no further step
\* (the frame messages are posted inside a step).
C12_Quiet ==
    worker.dones >= 1 =>
        /\ worker'.dones = worker.dones
        /\ worker'.progress = worker.progress
        /\ worker'.autosaved = worker.autosaved
        /\ worker'.saveCalls = worker.saveCalls
        /\ worker'.run = worker.run
        /\ calls' = calls

C12_ExactlyOneDone ==
    /\ [](worker.dones <= 1)
    /\ [][C12_Quiet]_vars
    /\ (worker.run.kind = "train") ~> (worker.dones = 1)

\* C12 witness: a run in which a stop was handled and a save() rejected has
\* posted its done.
C12_DoneAfterFailedSave ==
    /\ worker.run.kind = "train"
    /\ worker.dones = 1
    /\ worker.stopped
    /\ worker.saveCalls > worker.autosaved

\* C20: whenever a training step found the worker's own draw not below
\* epsilon and called agent.selectAction, the index it executed is the one
\* that maximizes the output of the online network for the observation.
C20_DelegatedIsGreedy ==
    (worker.run.kind = "train" /\ worker.choice.delegated) => worker.choice.greedy

\* C5: in a run with a finite threshold T, save() is invoked exactly once, at
\* the first step after which the best count is >= T, one autosaved message
\* follows it, and no later improvement invokes save() again.
C5_SavedExactlyOnce ==
    FiniteThreshold =>
        /\ worker.saveCalls <= 1
        /\ worker.autosaved <= 1
        /\ worker.run.bestScore < worker.run.saveThreshold => worker.saveCalls = 0
        /\ (worker.stepped /\ worker.run.bestScore >= worker.run.saveThreshold)
              => worker.saveCalls = 1
        /\ worker.run.hasAutoSaved => worker.autosaved = 1

\* C8: while the stop flag is set during a training run, no environment step
\* begins.
C8_Step ==
    (worker.run.kind = "train" /\ worker.shouldStop) => calls' # calls + 1

C8_NoStepAfterStop == [][C8_Step]_vars

\* C10: with epsilonStart s, epsilonEnd e (hundredths) and horizon D >= 1,
\* epsilon is s before the first episode, s*(1 - min(1, k/D)) + e*min(1, k/D)
\* after k episodes, exactly e for k >= D, and always between e and s.
C10_Annealed ==
    worker.run.kind = "train" =>
        LET run == worker.run
            k == run.ep - 1
            s == run.epsStart
            e == run.epsEnd
            D == run.epsDecay
            eps == run.epsilon
        IN  /\ D >= 1
            /\ eps.d > 0
            /\ k = 0 => eps.n * 100 = s * eps.d
            /\ k < D => eps.n * 100 * D = (s * (D - k) + e * k) * eps.d
            /\ k >= D => eps.n * 100 = e * eps.d
            /\ Min(s, e) * eps.d <= eps.n * 100
            /\ eps.n * 100 <= Max(s, e) * eps.d
            /\ worker.posted.type = "progress" =>
                  /\ worker.posted.epsilon = eps
                  /\ worker.posted.episode = k

\* C10 witness: an episode beyond the horizon has ended, with s # e, and
\* an earlier one ended strictly inside the horizon.
C10_PastHorizon ==
    /\ worker.run.kind = "train"
    /\ worker.posted.type = "progress"
    /\ worker.run.epsDecay = 2
    /\ worker.posted.episode = 3
    /\ worker.run.epsStart = 50
    /\ worker.run.epsEnd = 100

\* C25, over the step in which an awaited save() rejects: the worker posts a
\* message that reports the failure, and the run goes on.
C25_Step ==
    (/\ worker.run.pc = "saving"
     /\ worker'.run.pc # "saving"
     /\ worker'.autosaved = worker.autosaved) =>
        /\ worker'.posted.type = "error"
        /\ worker'.run.pc \in { "step", "episodeEnd" }

C25_FailureReported == [][C25_Step]_vars

\* C26: the steps of a progress message and of an eval message are the
\* number of env.step calls made in the episode, whether it ended by done or
\* at maxSteps.
C26_StepsAreCalls ==
    worker.posted.type \in { "progress", "eval" } => worker.posted.steps = calls

\* C32, over one step of a run: bestScore does not decrease.
C32_Step ==
    (worker.run.kind = "train" /\ worker'.run.kind = "train") =>
        worker'.run.bestScore >= worker.run.bestScore

\* C32, in every state of a run: bestScore is the largest obstaclesCleared
\* read after a step of the run so far, and a progress message has
\* bestScore >= episodeCleared.
C32_Largest ==
    worker.run.kind = "train" =>
        /\ worker.run.bestScore = worker.run.maxCleared
        /\ worker.run.bestScore >= physics.obstaclesCleared
        /\ worker.posted.type = "progress" =>
               worker.posted.bestScore >= worker.posted.episodeCleared

C32_BestIsLargest == [][C32_Step]_vars /\ []C32_Largest

\* C32 witness: a progress message of a later episode carries a best count
\* reached in an earlier episode, larger than the count of its own episode.
C32_BestFromEarlierEpisode ==
    /\ worker.run.kind = "train"
    /\ worker.posted.type = "progress"
    /\ worker.posted.episode > 1
    /\ worker.posted.bestScore > worker.posted.episodeCleared

\* C35, over one env.step call of a training episode: one transition is
\* handed to agent.observe; its obs is the observation reset() returned when
\* the call is the first of the episode, and the nextObs of the transition
\* before it otherwise, which was not done; its nextObs and done are what
\* the call returned.
C35_Step ==
    (worker.run.kind = "train" /\ calls' = calls + 1) =>
        /\ worker'.stored = worker.stored + 1
        /\ worker'.last.obs =
               (IF calls = 0 THEN buildObservationFromPhysics(physics)
                ELSE worker.last.nextObs)
        /\ calls > 0 => ~worker.last.done
        /\ worker'.last.nextObs = buildObservationFromPhysics(physics')
        /\ worker'.last.done = env'.terminated

\* C35, in every state: the transitions of the episode are as many as its
\* env.step calls.
C35_Count == worker.run.kind = "train" => worker.stored = calls

C35_TransitionsChain == [][C35_Step]_vars /\ []C35_Count

\* C35 witness: an episode of several transitions, the last one done.
C35_ChainEndsDone ==
    /\ worker.run.kind = "train"
    /\ worker.stored > 2
    /\ worker.last.done
    /\ worker.last.obs # worker.last.nextObs

\* C37: the progress messages of a run are numbered 1, 2, 3, ... in the
\* order they are posted, they are at most `episodes`, and the steps of each
\* are between 0 and maxSteps.
C37_Numbered ==
    worker.run.kind = "train" =>
        /\ worker.progress <= worker.run.episodes
        /\ worker.posted.type = "progress" =>
               /\ worker.posted.episode = worker.progress
               /\ worker.posted.steps >= 0
               /\ worker.posted.steps <= worker.run.maxSteps

\* C37, over one step of a run: the count of progress messages grows by one
\* with each message and not otherwise.
C37_Step ==
    (worker.run.kind = "train" /\ worker'.run.kind = "train") =>
        worker'.progress =
            worker.progress + (IF worker'.posted.type = "progress" THEN 1 ELSE 0)

C37_ProgressInOrder == [][C37_Step]_vars /\ []C37_Numbered

\* C37 witness: the third message of a run of three episodes, its steps at
\* maxSteps.
C37_ThirdMessage ==
    /\ worker.run.kind = "train"
    /\ worker.posted.type = "progress"
    /\ worker.posted.episode = 3
    /\ worker.progress = 3
    /\ worker.posted.steps = worker.run.maxSteps

-----------------------------------------------------------------------------
(* Claims on the evaluation run                                            *)

\* C7: an evaluation run terminates: it posts one eval message per episode,
\* in order, then done, and the steps of every eval message are between 1
\* and maxSteps.
C7_Counted ==
    worker.run.kind = "eval" =>
        /\ worker.evals = worker.run.ep - 1
        /\ worker.evals <= worker.run.episodes
        /\ worker.dones = (IF worker.run.pc = "finished" THEN 1 ELSE 0)
        /\ worker.run.pc = "finished" => worker.evals = worker.run.episodes
        /\ worker.posted.type = "eval" =>
              /\ worker.posted.episode = worker.evals
              /\ worker.posted.steps >= 1
              /\ worker.posted.steps <= worker.run.maxSteps

C7_EvalTerminates ==
    /\ []C7_Counted
    /\ (worker.run.kind = "eval") ~> (worker.run.pc = "finished")

\* C7 witness: the last episode of a run ended in a collision before maxSteps
\* and posted its eval message.
C7_LastEpisodeCollided ==
    /\ worker.run.kind = "eval"
    /\ worker.posted.type = "eval"
    /\ worker.posted.episode = worker.run.episodes
    /\ worker.run.episodes > 1
    /\ worker.posted.steps < worker.run.maxSteps
    /\ env.terminated

\* C27, over every step of an evaluation run for which a stop command has
\* arrived: the run starts no further episode; and such a run posts done
\* without having run the episodes that were left.
C27_Step ==
    (worker.run.kind = "eval" /\ worker.queued > 0) =>
        ~(worker.run.pc = "episode" /\ worker'.run.pc = "step")

C27_EvalHonoursStop == [][C27_Step]_vars

-----------------------------------------------------------------------------
(* Claims on both loops                                                    *)

\* C36, over every env.step call of a training or evaluation run: the
\* environment is not terminated when the call is made.
C36_Step == calls' = calls + 1 => ~env.terminated

C36_NoStepOnTerminated == [][C36_Step]_vars

\* C36 witness: a step of a run has returned done before maxSteps, with
\* episodes left to run.
C36_DoneWithEpisodesLeft ==
    /\ env.terminated
    /\ worker.run.pc = "episodeEnd"
    /\ worker.run.ep < worker.run.episodes
    /\ worker.run.steps + 1 < worker.run.maxSteps

-----------------------------------------------------------------------------
(* Claims on a start handled during a run                                  *)

\* C21: a training run during which a stop was handled starts no episode
\* after the current one, whatever start commands are handled in between,
\* and no second trainLoop is started while one has not returned.
C21_Step ==
    /\ (worker.run.kind = "train" /\ worker.stopped) =>
           ~(worker.run.pc = "episode" /\ worker'.run.pc = "step")
    /\ parked'.run.pc = "none"

C21_StopSurvivesStart == [][C21_Step]_vars

\* the first half of C21_Step alone
C21_StoppedRunStartsNoEpisode ==
    [][(worker.run.kind = "train" /\ worker.stopped) =>
           ~(worker.run.pc = "episode" /\ worker'.run.pc = "step")]_vars

====
